---- MODULE Spec2Model ----
(***************************************************************************)
(* The plan -> diagram compiler of archagents:                             *)
(*   agent.normalize_plan, plan_to_drawio.plan_to_mxgraph and              *)
(*   validate.validate_xml, run one after the other on a plan.             *)
(*                                                                         *)
(* Python values are modelled as follows.                                  *)
(*   - a str is a TLA+ string;                                             *)
(*   - a JSON value is a record [t, v]: t its type ("missing" for a key    *)
(*     the dict does not hold), v its content (a string, or a sequence     *)
(*     for a list);                                                        *)
(*   - a dict with a known set of keys (node, edge, group, plan) is a      *)
(*     record that has every key, absent keys holding Missing.  Equality   *)
(*     of these records is Python's equality of the dicts.                 *)
(***************************************************************************)
EXTENDS Integers, Sequences, FiniteSets, TLC

VARIABLES
    pc,         \* where the pipeline stands
    user_goal,  \* the goal text handed to normalize_plan and validate_xml
    plan,       \* the caller's plan object (normalize_plan shares its lists)
    g,          \* the plan normalize_plan returned
    xml,        \* the document plan_to_mxgraph returned, or the one handed in
    report,     \* the report validate_xml returned
    svg,        \* the image drawio_xml_to_svg returned
    max_iters,  \* the max_iters a generation loop was called with
    iter,       \* how many passes the running loop has started
    trace,      \* the trace list of agentic_generate
    events,     \* the events a generator has yielded so far
    result,     \* the xml of the dict agentic_generate returned
    server,     \* whether the MCP server answers: "up" or "down"
    changes,    \* how often the MCP server went up or down
    plans,      \* the plans list of mcp_multi_agent_stream
    building,   \* the place in plans of the plan build_from_plan works on
    cell_ids,   \* ArchitectureDiagramBuilder.cell_ids: node id -> cell id
    canvas,     \* the cells of the Draw.io diagram, each the plan it was made for
    edge_calls  \* the add_edge calls the builder made

\* The state of a generation loop.
loopvars == <<max_iters, iter, trace, events, result>>

\* The state of the MCP server and of the MCP flow.
mcpvars == <<server, changes, plans, building, cell_ids, canvas, edge_calls>>

vars == <<pc, user_goal, plan, g, xml, report, svg, loopvars, mcpvars>>

(***************************************************************************)
(* Strings                                                                 *)
(***************************************************************************)
Min(a, b) == IF a < b THEN a ELSE b

Max(a, b) == IF a > b THEN a ELSE b

CharAt(s, i) == SubSeq(s, i, i)

\* s[:n]
Prefix(s, n) == SubSeq(s, 1, Min(n, Len(s)))

\* s[n:] for a 0-based n
Suffix(s, n) == SubSeq(s, Min(n, Len(s)) + 1, Len(s))

\* sub in s
Contains(s, sub) ==
    \E i \in 1..(Len(s) - Len(sub) + 1) : SubSeq(s, i, i + Len(sub) - 1) = sub

Uppers == "ABCDEFGHIJKLMNOPQRSTUVWXYZ"

Lowers == "abcdefghijklmnopqrstuvwxyz"

\* The lower-case letter of each upper-case one.
LowerOf ==
    [c \in {CharAt(Uppers, i) : i \in 1..Len(Uppers)} |->
        CharAt(Lowers, CHOOSE i \in 1..Len(Uppers) : CharAt(Uppers, i) = c)]

LowerChar(c) == IF c \in DOMAIN LowerOf THEN LowerOf[c] ELSE c

RECURSIVE Lower(_)
\* str.lower()
Lower(s) == IF s = "" THEN "" ELSE LowerChar(CharAt(s, 1)) \o Lower(Suffix(s, 1))

\* The printable ASCII characters in code-point order (without the double
\* quote, the backslash and the backquote, which no modelled text holds).
Ascii == " !#$%&'()*+,-./0123456789:;<=>?@ABCDEFGHIJKLMNOPQRSTUVWXYZ[]^_abcdefghijklmnopqrstuvwxyz{|}~"

\* The place of each character in Ascii.
OrdOf ==
    [c \in {CharAt(Ascii, i) : i \in 1..Len(Ascii)} |->
        CHOOSE i \in 1..Len(Ascii) : CharAt(Ascii, i) = c]

Ord(c) == OrdOf[c]

RECURSIVE StrLess(_, _)
\* a < b on str: by code point, a proper prefix first
StrLess(a, b) ==
    IF b = "" THEN FALSE
    ELSE IF a = "" THEN TRUE
    ELSE IF CharAt(a, 1) = CharAt(b, 1) THEN StrLess(Suffix(a, 1), Suffix(b, 1))
    ELSE Ord(CharAt(a, 1)) < Ord(CharAt(b, 1))

Digits == "0123456789"

RECURSIVE IntToStr(_)
\* str(n) of a natural number, as an f-string formats it
IntToStr(n) ==
    IF n < 10 THEN CharAt(Digits, n + 1)
    ELSE IntToStr(n \div 10) \o CharAt(Digits, (n % 10) + 1)

(***************************************************************************)
(* JSON values                                                             *)
(***************************************************************************)
Missing == [t |-> "missing", v |-> ""]

Null == [t |-> "null", v |-> ""]

Str(s) == [t |-> "str", v |-> s]

\* a number, by its decimal text
Num(s) == [t |-> "num", v |-> s]

Bool(b) == [t |-> "bool", v |-> IF b THEN "true" ELSE "false"]

\* a dict that is no node, edge, group or plan, by its keys
Obj(keys) == [t |-> "obj", v |-> keys]

List(xs) == [t |-> "list", v |-> xs]

\* d.get(k): None for an absent key
Get(x) == IF x.t = "missing" THEN Null ELSE x

\* d.get(k, dflt)
GetD(x, dflt) == IF x.t = "missing" THEN dflt ELSE x

\* Python's truth value
Truthy(x) ==
    CASE x.t = "str" -> x.v # ""
      [] x.t = "num" -> x.v # "0"
      [] x.t = "bool" -> x.v = "true"
      [] x.t = "list" -> Len(x.v) > 0
      [] x.t = "obj" -> Len(x.v) > 0
      [] OTHER -> FALSE

\* x or dflt
OrElse(x, dflt) == IF Truthy(x) THEN x ELSE dflt

\* A list element that is a dict (has .get); a str element has none.
IsDict(e) == "id" \in DOMAIN e \/ "from" \in DOMAIN e

\* The places from i on where the sequence of booleans holds TRUE, in order.
RECURSIVE SelectIdx(_, _)
SelectIdx(test, i) ==
    IF i > Len(test) THEN <<>>
    ELSE (IF test[i] THEN <<i>> ELSE <<>>) \o SelectIdx(test, i + 1)

\* <<s[idx[1]], s[idx[2]], ...>>
Pick(s, idx) == [k \in 1..Len(idx) |-> s[idx[k]]]

\* The elements of a sequence, as a set.
Range(s) == {s[i] : i \in 1..Len(s)}

(***************************************************************************)
(* agent.normalize_plan                                                    *)
(***************************************************************************)
CONTAINER_KEYWORDS ==
    <<"vpc", "subnet", "cluster", "network", "region", "zone",
      "namespace", "environment", "boundary", "perimeter">>

MAX_NODES == 8

\* node.get("name", "").lower() or node.get("id", "").lower() fails: the value
\* is there and is no str.
LowerRaises(node) ==
    node.name.t \notin {"missing", "str"} \/ node.id.t \notin {"missing", "str"}

\* The test, had it looked at the name only.
is_container_by_name(node) ==
    LET name_lower == Lower(GetD(node.name, Str("")).v)
    IN  \E k \in 1..Len(CONTAINER_KEYWORDS) : Contains(name_lower, CONTAINER_KEYWORDS[k])

is_container(node) ==
    LET name_lower == Lower(GetD(node.name, Str("")).v)
        id_lower == Lower(GetD(node.id, Str("")).v)
    IN  \E k \in 1..Len(CONTAINER_KEYWORDS) :
            \/ Contains(name_lower, CONTAINER_KEYWORDS[k])
            \/ Contains(id_lower, CONTAINER_KEYWORDS[k])

\* The loop, had it removed each container from the list it runs over: the
\* node that follows a removed one is passed over.
RECURSIVE DemoteLoopInPlace(_, _, _, _)
DemoteLoopInPlace(nodes, i, groups, nodes_to_remove) ==
    IF i > Len(nodes)
    THEN [raised |-> FALSE, groups |-> groups, nodes_to_remove |-> nodes_to_remove]
    ELSE LET node == nodes[i] IN
      IF LowerRaises(node)
      THEN [raised |-> TRUE, groups |-> groups, nodes_to_remove |-> nodes_to_remove]
      ELSE IF ~is_container(node)
      THEN DemoteLoopInPlace(nodes, i + 1, groups, nodes_to_remove)
      ELSE IF \E k \in 1..Len(groups) : ~IsDict(groups[k])
      THEN [raised |-> TRUE, groups |-> groups, nodes_to_remove |-> nodes_to_remove]
      ELSE LET new_group == [id |-> Get(node.id),
                             name |-> GetD(node.name, Get(node.id)),
                             lane |-> Missing, style |-> Missing]
               existing_ids == {Get(groups[k].id) : k \in 1..Len(groups)}
           IN  DemoteLoopInPlace(nodes, i + 2,
                          IF new_group.id \in existing_ids
                          THEN groups ELSE Append(groups, new_group),
                          Append(nodes_to_remove, i))

\* The loop "Convert container nodes to groups" from node i on: the groups
\* and nodes_to_remove it ends with, or raised.
RECURSIVE DemoteLoop(_, _, _, _)
DemoteLoop(nodes, i, groups, nodes_to_remove) ==
    IF i > Len(nodes)
    THEN [raised |-> FALSE, groups |-> groups, nodes_to_remove |-> nodes_to_remove]
    ELSE LET node == nodes[i] IN
      IF LowerRaises(node)
      THEN [raised |-> TRUE, groups |-> groups, nodes_to_remove |-> nodes_to_remove]
      ELSE IF ~is_container(node)
      THEN DemoteLoop(nodes, i + 1, groups, nodes_to_remove)
      ELSE IF \E k \in 1..Len(groups) : ~IsDict(groups[k])
      THEN [raised |-> TRUE, groups |-> groups, nodes_to_remove |-> nodes_to_remove]
      ELSE LET new_group == [id |-> Get(node.id),
                             name |-> GetD(node.name, Get(node.id)),
                             lane |-> Missing, style |-> Missing]
               existing_ids == {Get(groups[k].id) : k \in 1..Len(groups)}
           IN  DemoteLoop(nodes, i + 1,
                          IF new_group.id \in existing_ids
                          THEN groups ELSE Append(groups, new_group),
                          Append(nodes_to_remove, i))

\* list.remove(x): without its first element equal to x
RECURSIVE ListRemove(_, _)
ListRemove(s, x) ==
    IF s = <<>> THEN <<>>
    ELSE IF Head(s) = x THEN Tail(s)
    ELSE <<Head(s)>> \o ListRemove(Tail(s), x)

\* for node in nodes_to_remove: nodes.remove(node)
RECURSIVE RemoveAll(_, _, _)
RemoveAll(nodes, removed, k) ==
    IF k > Len(removed) THEN nodes
    ELSE RemoveAll(ListRemove(nodes, removed[k]), removed, k + 1)

\* The pruning, had it looked at the from of an edge only.
PruneEdgesFromOnly(edges, idx, node_ids) ==
    LET Keep(i) == Get(edges[i].from) \in node_ids
    IN  Pick(idx, SelectIdx([k \in 1..Len(idx) |-> Keep(idx[k])], 1))

\* [e for e in edges if e.get("from") in node_ids and e.get("to") in node_ids],
\* as the indices kept
PruneEdges(edges, idx, node_ids) ==
    LET Keep(i) == Get(edges[i].from) \in node_ids /\ Get(edges[i].to) \in node_ids
    IN  Pick(idx, SelectIdx([k \in 1..Len(idx) |-> Keep(idx[k])], 1))

\* The count, had it looked at the edges that leave the node only.
ConnectionCountFrom(edges, nid) ==
    Cardinality({i \in 1..Len(edges) : Get(edges[i].from) = nid})

\* sum(1 for e in edges if e.get("from") == nid or e.get("to") == nid)
ConnectionCount(edges, nid) ==
    Cardinality({i \in 1..Len(edges) :
                    Get(edges[i].from) = nid \/ Get(edges[i].to) = nid})

\* sorted(nodes, key=..., reverse=True) of nodes whose keys are the given
\* ones, as the permutation of the places: greater keys first, equal keys in
\* their original order (the sort is stable, also reversed)
SortedDesc(keys) ==
    LET n == Len(keys)
        Rank(i) == 1 + Cardinality({j \in 1..n :
                        \/ keys[j] > keys[i]
                        \/ (keys[j] = keys[i] /\ j < i)})
    IN  [r \in 1..n |-> CHOOSE i \in 1..n : Rank(i) = r]

\* The cut, had it started at a name of 20 characters.
TruncateNameFrom20(node) ==
    LET name == GetD(node.name, GetD(node.id, Str(""))).v
    IN  IF Len(name) >= 20
        THEN [node EXCEPT !.name = Str(Prefix(name, 17) \o "...")]
        ELSE node

\* "Truncate long node names", on one node
TruncateName(node) ==
    LET name == GetD(node.name, GetD(node.id, Str(""))).v
    IN  IF Len(name) > 20
        THEN [node EXCEPT !.name = Str(Prefix(name, 17) \o "...")]
        ELSE node

\* The removal of duplicates, had it kept the last edge of each (from, to).
UniqueEdgesKeepLast(edges, idx, k, seen_edges) ==
    LET Key(j) == <<Get(edges[idx[j]].from), Get(edges[idx[j]].to)>>
        Last(j) == \A m \in (j + 1)..Len(idx) : Key(m) # Key(j)
    IN  Pick(idx, SelectIdx([j \in 1..Len(idx) |-> Last(j)], 1))

\* "Remove duplicate edges": of the edges at idx, the first of each
\* (from, to), as indices
RECURSIVE UniqueEdges(_, _, _, _)
UniqueEdges(edges, idx, k, seen_edges) ==
    IF k > Len(idx) THEN <<>>
    ELSE LET e == edges[idx[k]]
             edge_key == <<Get(e.from), Get(e.to)>>
         IN  IF edge_key \in seen_edges
             THEN UniqueEdges(edges, idx, k + 1, seen_edges)
             ELSE <<idx[k]>> \o UniqueEdges(edges, idx, k + 1, seen_edges \cup {edge_key})

\* len(edge.get("label", "")) fails: the label is there and has no len()
LabelRaises(edge) == edge.label.t \notin {"missing", "str"}

\* "Truncate edge labels", on one edge
TruncateLabel(edge) ==
    LET label == GetD(edge.label, Str("")).v
    IN  IF Len(label) > 15
        THEN [edge EXCEPT !.label = Str(Prefix(label, 12) \o "...")]
        ELSE edge

\* "Truncate edge labels" and the return.  nodes2 are the nodes of g,
\* callerNodes the caller's nodes, eidx3 the places of the edges kept so far.
\* A label without len() makes the loop raise at the first such edge, the
\* labels before it already cut in the caller's dicts.
TruncateLabelsAndReturn(p, title, groups, nodes2, callerNodes, edges, eidx3) ==
    LET bad == {k \in 1..Len(eidx3) : LabelRaises(edges[eidx3[k]])}
        firstBad == IF bad = {} THEN Len(eidx3) + 1
                    ELSE CHOOSE k \in bad : \A j \in bad : k <= j
        callerEdges ==
            List([i \in 1..Len(edges) |->
                    IF \E k \in 1..(firstBad - 1) : eidx3[k] = i
                    THEN TruncateLabel(edges[i]) ELSE edges[i]])
        callerPlan == [p EXCEPT !.nodes = callerNodes,
                                !.edges = IF Truthy(p.edges) THEN callerEdges ELSE p.edges]
    IN  IF bad # {} THEN [raised |-> TRUE, g |-> Null, plan |-> callerPlan]
        ELSE [raised |-> FALSE,
              g |-> [p EXCEPT !.title = title,
                              !.nodes = List(nodes2),
                              !.edges = List([k \in 1..Len(eidx3) |->
                                                TruncateLabel(edges[eidx3[k]])]),
                              !.groups = List(groups)],
              plan |-> callerPlan]

\* "LIMIT nodes to max 8", "Truncate long node names" and "Remove duplicate
\* edges".  nodes1 are the nodes left after the demotion, eidx1 the places of
\* the edges left after the first pruning.
LimitNodes(p, title, groups, nodes1, edges, eidx1) ==
    LET capped == Len(nodes1) > MAX_NODES
        Count(n) == ConnectionCount(Pick(edges, eidx1), Get(n.id))
        \* the places in nodes1 of the nodes of g, in g's order
        nidx == IF capped
                THEN SubSeq(SortedDesc([i \in 1..Len(nodes1) |-> Count(nodes1[i])]),
                            1, MAX_NODES)
                ELSE [i \in 1..Len(nodes1) |-> i]
        node_ids2 == {Get(nodes1[nidx[k]].id) : k \in 1..Len(nidx)}
        eidx2 == IF capped THEN PruneEdges(edges, eidx1, node_ids2) ELSE eidx1
        \* the dicts of the kept nodes are the caller's: their names change
        \* in the caller's list too.  The caller's list is the one the
        \* containers were removed from, unless its value was falsy and a
        \* fresh [] took its place.
        callerNodes ==
            IF Truthy(p.nodes)
            THEN List([i \in 1..Len(nodes1) |->
                        IF \E k \in 1..Len(nidx) : nidx[k] = i
                        THEN TruncateName(nodes1[i]) ELSE nodes1[i]])
            ELSE p.nodes
    IN  TruncateLabelsAndReturn(p, title, groups,
                                [k \in 1..Len(nidx) |-> TruncateName(nodes1[nidx[k]])],
                                callerNodes, edges, UniqueEdges(edges, eidx2, 1, {}))

\* "Remove converted nodes" and "Remove edges that reference removed nodes".
\* The edges are iterated here first: a truthy value that is no list raises,
\* the containers already gone from the caller's list.
RemoveConverted(p, title, groups, nodes0, nodes_to_remove) ==
    LET nodes1 == RemoveAll(nodes0, Pick(nodes0, nodes_to_remove), 1)
        edges0 == OrElse(p.edges, List(<<>>))
        node_ids == {Get(nodes1[i].id) : i \in 1..Len(nodes1)}
    IN  IF edges0.t # "list"
        THEN [raised |-> TRUE, g |-> Null,
              plan |-> [p EXCEPT !.nodes = IF Truthy(p.nodes) THEN List(nodes1) ELSE p.nodes]]
        ELSE LimitNodes(p, title, groups, nodes1, edges0.v,
                        PruneEdges(edges0.v, [i \in 1..Len(edges0.v) |-> i], node_ids))

\* "Convert container nodes to groups", over the list of nodes and the copy
\* of the groups.
ConvertContainers(p, title, nodes0, groups0) ==
    LET loop == DemoteLoop(nodes0, 1, groups0, <<>>)
    IN  IF loop.raised THEN [raised |-> TRUE, g |-> Null, plan |-> p]
        ELSE RemoveConverted(p, title, loop.groups, nodes0, loop.nodes_to_remove)

\* normalize_plan(user_goal, plan): [raised, g, plan], g the plan returned
\* (when not raised) and plan the caller's plan object after the call.  The
\* caller's nodes list and its node and edge dicts are shared with g
\* (plan.copy() is shallow), so the caller's plan changes with them.
normalize_plan(goal, p) ==
    LET title == IF Truthy(p.title) THEN p.title
                 ELSE Str(Prefix(goal, 50) \o (IF Len(goal) > 50 THEN "..." ELSE ""))
        nodes0 == OrElse(p.nodes, List(<<>>))
        groupsArg == OrElse(p.groups, List(<<>>))
        \* list(...) of a str is its characters, of a dict its keys
        groups0 == CASE groupsArg.t = "list" -> groupsArg.v
                     [] groupsArg.t = "str" ->
                            [k \in 1..Len(groupsArg.v) |-> Str(CharAt(groupsArg.v, k))]
                     [] groupsArg.t = "obj" ->
                            [k \in 1..Len(groupsArg.v) |-> Str(groupsArg.v[k])]
                     [] OTHER -> <<>>
    IN  \* list(5) raises, and so does the loop over nodes that are no list
        IF groupsArg.t \in {"num", "bool"} \/ nodes0.t # "list"
        THEN [raised |-> TRUE, g |-> Null, plan |-> p]
        ELSE ConvertContainers(p, title, nodes0.v, groups0)

(***************************************************************************)
(* plan_to_drawio: constants, colours, styles                              *)
(*                                                                         *)
(* A style is the sequence of the parts its text holds between the ';':    *)
(* <<key, value>> for "key=value" and <<key>> for a bare key.  A cell is   *)
(* the record of an mxCell element's attributes ("" for an attribute the   *)
(* element does not carry, Missing for no value attribute) and of its      *)
(* mxGeometry child.  A document is [root, cells].                         *)
(***************************************************************************)
DEFAULT_LANES ==
    <<Str("Experience"), Str("Application"), Str("Integration"), Str("Data"),
      Str("Platform & Security")>>

LANE_COLORS ==
    ("Experience" :> [fill |-> "#0a6ed1", stroke |-> "#0858a8", bg |-> "#e8f4fd", text |-> "#ffffff"])
 @@ ("Application" :> [fill |-> "#1a9898", stroke |-> "#147a7a", bg |-> "#e6f5f5", text |-> "#ffffff"])
 @@ ("Integration" :> [fill |-> "#f39c12", stroke |-> "#c77d0e", bg |-> "#fef5e6", text |-> "#ffffff"])
 @@ ("Data" :> [fill |-> "#6c5ce7", stroke |-> "#5649b9", bg |-> "#f0eef9", text |-> "#ffffff"])
 @@ ("Platform & Security" :> [fill |-> "#2c3e50", stroke |-> "#1a252f", bg |-> "#ebeff2", text |-> "#ffffff"])
 @@ ("External" :> [fill |-> "#95a5a6", stroke |-> "#7f8c8d", bg |-> "#f4f6f6", text |-> "#ffffff"])

LANE_HEIGHT == 130

LANE_PADDING == 20

NODE_WIDTH == 160

NODE_HEIGHT == 60

NODE_SPACING_X == 200

GROUP_PADDING == 30

DIAGRAM_MARGIN == 40

\* lane_y.get(lane, 120), groups and nodes alike
LANE_Y_DEFAULT == 120

get_lane_colors(lane) ==
    IF lane.t = "str" /\ lane.v \in DOMAIN LANE_COLORS
    THEN LANE_COLORS[lane.v] ELSE LANE_COLORS["External"]

HexDigits == "0123456789abcdef"

\* The value of each hexadecimal digit.
HexOf ==
    [c \in {CharAt(HexDigits, i) : i \in 1..Len(HexDigits)} |->
        (CHOOSE i \in 1..Len(HexDigits) : CharAt(HexDigits, i) = c) - 1]

IsHexChar(c) == LowerChar(c) \in DOMAIN HexOf

\* int(s, 16) of two hexadecimal digits
Hex2(s) == 16 * HexOf[LowerChar(CharAt(s, 1))] + HexOf[LowerChar(CharAt(s, 2))]

\* re.match(r'^#[0-9a-fA-F]{6}$', c)
IsHexColour(c) ==
    Len(c) = 7 /\ CharAt(c, 1) = "#" /\ \A i \in 2..7 : IsHexChar(CharAt(c, i))

\* 0.2126 * r/255 + 0.7152 * g/255 + 0.0722 * b/255, times 2550000
Luminance(c) ==
    2126 * Hex2(SubSeq(c, 2, 3)) + 7152 * Hex2(SubSeq(c, 4, 5)) + 722 * Hex2(SubSeq(c, 6, 7))

\* plan_to_drawio._is_dark: lum < 0.5
is_dark(hex_color) ==
    LET c0 == IF hex_color = "" THEN "#000000" ELSE hex_color
        c == IF CharAt(c0, 1) = "#" THEN c0 ELSE "#" \o c0
    IN  IsHexColour(c) /\ Luminance(c) * 2 < 2550000

EscapeChar(c) ==
    CASE c = "&" -> "&amp;"
      [] c = "<" -> "&lt;"
      [] c = ">" -> "&gt;"
      [] c = "\"" -> "&quot;"
      [] c = "'" -> "&#x27;"
      [] OTHER -> c

RECURSIVE html_escape(_)
\* html.escape(s)
html_escape(s) == IF s = "" THEN "" ELSE EscapeChar(CharAt(s, 1)) \o html_escape(Suffix(s, 1))

TitleStyle ==
    <<<<"text">>, <<"html", "1">>, <<"strokeColor", "none">>,
      <<"fillColor", "none">>, <<"align", "left">>,
      <<"verticalAlign", "middle">>, <<"fontStyle", "1">>,
      <<"fontSize", "18">>, <<"fontColor", "#1a1a1a">>>>

LaneBgStyle(bg) ==
    <<<<"rounded", "0">>, <<"whiteSpace", "wrap">>, <<"html", "1">>,
      <<"strokeColor", "#e0e0e0">>, <<"fillColor", bg>>, <<"opacity", "50">>>>

LaneLabelStyle(fill) ==
    <<<<"text">>, <<"html", "1">>, <<"strokeColor", "none">>,
      <<"fillColor", "none">>, <<"fontStyle", "1">>, <<"fontColor", fill>>,
      <<"align", "left">>, <<"verticalAlign", "top">>, <<"fontSize", "13">>,
      <<"spacingLeft", "4">>>>

group_style(dash) ==
    <<<<"rounded", "1">>, <<"whiteSpace", "wrap">>, <<"html", "1">>,
      <<"fillColor", "#ffffff">>, <<"fillOpacity", "60">>,
      <<"strokeColor", "#666666">>, <<"strokeWidth", "2">>,
      <<"dashed", dash>>, <<"dashPattern", "8 4">>,
      <<"verticalAlign", "top">>, <<"fontStyle", "1">>, <<"fontSize", "11">>,
      <<"fontColor", "#666666">>, <<"spacingTop", "4">>>>

ShapeData ==
    <<<<"shape", "cylinder3">>, <<"whiteSpace", "wrap">>, <<"html", "1">>,
      <<"boundedLbl", "1">>, <<"backgroundOutline", "1">>, <<"size", "15">>>>

ShapeSecurity ==
    <<<<"shape", "hexagon">>, <<"perimeter", "hexagonPerimeter2">>,
      <<"whiteSpace", "wrap">>, <<"html", "1">>, <<"fixedSize", "1">>,
      <<"size", "20">>>>

ShapeRounded ==
    <<<<"rounded", "1">>, <<"whiteSpace", "wrap">>, <<"html", "1">>,
      <<"arcSize", "20">>>>

NodeColours(fill, stroke, font_color) ==
    <<<<"fillColor", fill>>, <<"strokeColor", stroke>>,
      <<"strokeWidth", "2">>, <<"fontColor", font_color>>,
      <<"fontSize", "12">>, <<"fontStyle", "1">>, <<"shadow", "1">>>>

\* plan_to_drawio._node_style
node_style(node) ==
    LET lane == GetD(node.lane, Str("Application"))
        colors == get_lane_colors(lane)
        node_type == GetD(node.type, Str("app"))
        scope == Lower(OrElse(node.scope, Str("")).v)
        external == node_type = Str("external") \/ scope = "external"
        fill == IF external THEN LANE_COLORS["External"].fill ELSE colors.fill
        stroke == IF external THEN LANE_COLORS["External"].stroke ELSE colors.stroke
        shape == IF node_type = Str("data") THEN ShapeData
                 ELSE IF node_type = Str("security") THEN ShapeSecurity
                 ELSE ShapeRounded
        font_color == IF is_dark(fill) THEN "#ffffff" ELSE "#1a1a1a"
    IN  shape \o NodeColours(fill, stroke, font_color)

EdgeArrowThin == "blockThin"

edge_style ==
    <<<<"edgeStyle", "orthogonalEdgeStyle">>, <<"rounded", "1">>,
      <<"orthogonalLoop", "1">>, <<"jettySize", "auto">>, <<"html", "1">>,
      <<"strokeColor", "#333333">>, <<"strokeWidth", "2">>,
      <<"endArrow", EdgeArrowThin>>, <<"endFill", "1">>, <<"endSize", "8">>>>

EdgeLabelStyle ==
    <<<<"text">>, <<"html", "1">>, <<"strokeColor", "none">>,
      <<"fillColor", "#ffffff">>, <<"align", "center">>,
      <<"verticalAlign", "middle">>, <<"whiteSpace", "wrap">>,
      <<"rounded", "1">>, <<"fontSize", "10">>, <<"fontColor", "#333333">>,
      <<"spacing", "2">>, <<"labelBackgroundColor", "#ffffff">>>>

LegendStyle ==
    <<<<"text">>, <<"html", "1">>, <<"strokeColor", "none">>,
      <<"fillColor", "none">>, <<"align", "left">>,
      <<"verticalAlign", "top">>, <<"fontStyle", "1">>, <<"fontSize", "11">>,
      <<"fontColor", "#666666">>>>

LegendSwatchStyle(fill, stroke) ==
    <<<<"rounded", "1">>, <<"whiteSpace", "wrap">>, <<"html", "1">>,
      <<"fillColor", fill>>, <<"strokeColor", stroke>>>>

LegendLabelStyle ==
    <<<<"text">>, <<"html", "1">>, <<"strokeColor", "none">>,
      <<"fillColor", "none">>, <<"align", "left">>,
      <<"verticalAlign", "middle">>, <<"fontSize", "9">>,
      <<"fontColor", "#666666">>>>

NoGeometry == [kind |-> "none", x |-> 0, y |-> 0, width |-> 0, height |-> 0]

\* <mxGeometry x="abc" ... />: an x, y, width or height that float() rejects
NanGeometry == [kind |-> "nan", x |-> 0, y |-> 0, width |-> 0, height |-> 0]

\* <mxGeometry relative="1" as="geometry" />
RelativeGeometry == [kind |-> "relative", x |-> 0, y |-> 0, width |-> 0, height |-> 0]

\* <mxCell id value style vertex="1" parent> with <mxGeometry x y width height>;
\* value is the attribute's text as written, that is, escaped
VertexCell(id, value, style, parent, x, y, w, h) ==
    [id |-> id, value |-> Str(value), style |-> style, vertex |-> "1", edge |-> "",
     parent |-> parent, source |-> "", target |-> "",
     geom |-> [kind |-> "rect", x |-> x, y |-> y, width |-> w, height |-> h]]

\* <mxCell id style edge="1" parent="1" source target>
EdgeCell(id, style, source, target) ==
    [id |-> id, value |-> Missing, style |-> style, vertex |-> "", edge |-> "1",
     parent |-> "1", source |-> source, target |-> target, geom |-> RelativeGeometry]

\* <mxCell id="0" /> and <mxCell id="1" parent="0" />
RootCells ==
    <<[id |-> "0", value |-> Missing, style |-> <<>>, vertex |-> "", edge |-> "",
       parent |-> "", source |-> "", target |-> "", geom |-> NoGeometry],
      [id |-> "1", value |-> Missing, style |-> <<>>, vertex |-> "", edge |-> "",
       parent |-> "0", source |-> "", target |-> "", geom |-> NoGeometry]>>

\* Concatenation of a sequence of sequences.
RECURSIVE Flatten(_)
Flatten(ss) == IF ss = <<>> THEN <<>> ELSE Head(ss) \o Flatten(Tail(ss))

(***************************************************************************)
(* plan_to_drawio: layout and synthesis                                    *)
(***************************************************************************)
\* The iteration of "for lane in lanes": a list's elements, a str's
\* characters, a dict's keys.
Iterate(x) ==
    CASE x.t = "list" -> x.v
      [] x.t = "str" -> [k \in 1..Len(x.v) |-> Str(CharAt(x.v, k))]
      [] x.t = "obj" -> [k \in 1..Len(x.v) |-> Str(x.v[k])]
      [] OTHER -> <<>>

\* _lane_positions(lanes).get(lane, dflt): a lane listed twice keeps the y of
\* its last place (positions[lane] = y overwrites)
lane_positions(lanes, lane, dflt) ==
    LET at == {i \in 1..Len(lanes) : lanes[i] = lane}
    IN  IF at = {} THEN dflt
        ELSE LET last == CHOOSE i \in at : \A j \in at : j <= i
             IN  DIAGRAM_MARGIN + 40 + (last - 1) * (LANE_HEIGHT + LANE_PADDING)

NodeLane(node) == GetD(node.lane, Str("Application"))

\* The sort key (n.get("group") or "zzz", n.get("id", "")) of _layout_nodes_in_lanes
LayoutKey(node) == <<OrElse(node.group, Str("zzz")).v, GetD(node.id, Str("")).v>>

KeyLess(a, b) == StrLess(a[1], b[1]) \/ (a[1] = b[1] /\ StrLess(a[2], b[2]))

\* The 0-based place of node i in its lane after nodes.sort(key=...): the sort
\* is stable
RankInLane(nodes, i) ==
    Cardinality({j \in 1..Len(nodes) :
        /\ NodeLane(nodes[j]) = NodeLane(nodes[i])
        /\ \/ KeyLess(LayoutKey(nodes[j]), LayoutKey(nodes[i]))
           \/ (LayoutKey(nodes[j]) = LayoutKey(nodes[i]) /\ j < i)})

\* The (x, y) that the layout gives node i when it reaches it.
NodeXY(nodes, lanes, i) ==
    <<DIAGRAM_MARGIN + 180 + NODE_SPACING_X * RankInLane(nodes, i),
      lane_positions(lanes, NodeLane(nodes[i]), LANE_Y_DEFAULT) + 35>>

\* The first node of node i's lane: nodes_by_lane keeps the lanes in the order
\* of their first node.
LaneFirst(nodes, i) ==
    CHOOSE j \in 1..Len(nodes) :
        /\ NodeLane(nodes[j]) = NodeLane(nodes[i])
        /\ \A k \in 1..(j - 1) : NodeLane(nodes[k]) # NodeLane(nodes[i])

\* _layout_nodes_in_lanes(plan, lane_y): positions, a function of the ids.
\* positions[node["id"]] = (x, y) runs lane after lane and, in a lane, in
\* sorted order; of several nodes with one id the last one written stays.
layout_nodes_in_lanes(nodes, lanes) ==
    LET Later(i, j) ==
            \/ LaneFirst(nodes, i) > LaneFirst(nodes, j)
            \/ /\ LaneFirst(nodes, i) = LaneFirst(nodes, j)
               /\ RankInLane(nodes, i) > RankInLane(nodes, j)
        LastOf(nid) ==
            CHOOSE i \in 1..Len(nodes) :
                /\ nodes[i].id = nid
                /\ \A j \in 1..Len(nodes) : (nodes[j].id = nid /\ j # i) => Later(i, j)
    IN  [nid \in {nodes[i].id : i \in 1..Len(nodes)} |-> NodeXY(nodes, lanes, LastOf(nid))]

\* _calculate_diagram_size(positions, lane_count)
calculate_diagram_size(positions, lane_count) ==
    IF DOMAIN positions = {} THEN <<1000, 600>>
    ELSE LET xs == {positions[k][1] : k \in DOMAIN positions}
             max_x == (CHOOSE x \in xs : \A z \in xs : z <= x) + NODE_WIDTH + DIAGRAM_MARGIN
             height == DIAGRAM_MARGIN * 2 + 40 + (LANE_HEIGHT + LANE_PADDING) * lane_count
         IN  <<Max(1200, max_x), height>>

\* The first number given to cell_id.
FIRST_CELL_ID == 100

\* "LANE BACKGROUNDS": the stripe and the header label of the lane at place i.
\* cell_id is 100 for the title and grows by one per cell.
LaneCells(lanes, i, lane_width) ==
    LET lane == lanes[i]
        y == lane_positions(lanes, lane, LANE_Y_DEFAULT) - 10
        colors == get_lane_colors(lane)
        cell_id == FIRST_CELL_ID + 1 + 2 * (i - 1)
    IN  <<VertexCell(IntToStr(cell_id), "", LaneBgStyle(colors.bg), "1",
                     DIAGRAM_MARGIN, y, lane_width, LANE_HEIGHT),
          VertexCell(IntToStr(cell_id + 1), html_escape(lane.v), LaneLabelStyle(colors.fill), "1",
                     DIAGRAM_MARGIN + 8, y + 6, 160, 24)>>

\* The places of the groups that get a cell: the first of each truthy id.
GroupsDrawn(groups) ==
    LET Drawn(i) == /\ Truthy(Get(groups[i].id))
                    /\ \A j \in 1..(i - 1) : Get(groups[j].id) # Get(groups[i].id)
    IN  SelectIdx([i \in 1..Len(groups) |-> Drawn(i)], 1)

\* The x and the width of a group's rectangle: a group without member nodes
\* gets the fixed ones.
GroupSpan(nodes, positions, gid) ==
    LET xs == {positions[nodes[i].id][1] : i \in {k \in 1..Len(nodes) : Get(nodes[k].group) = gid}}
        lo == CHOOSE x \in xs : \A z \in xs : x <= z
        hi == CHOOSE x \in xs : \A z \in xs : z <= x
    IN  IF xs = {} THEN <<DIAGRAM_MARGIN + 160, 400>>
        ELSE <<lo - GROUP_PADDING, hi - lo + NODE_WIDTH + GROUP_PADDING * 2>>

\* "GROUPS (Containers)": the cell of one group
GroupCell(group, nodes, lanes, positions) ==
    LET gid == group.id.v
        lane == GetD(group.lane, Str("Platform & Security"))
        y == lane_positions(lanes, lane, LANE_Y_DEFAULT) - 5
        style_type == GetD(group.style, Str("dashed"))
        span == GroupSpan(nodes, positions, group.id)
        h == LANE_HEIGHT - 10
        dash == IF style_type = Str("dashed") THEN "1" ELSE "0"
    IN  VertexCell("g_" \o gid, html_escape(GetD(group.name, group.id).v), group_style(dash), "1",
                   span[1], y, span[2], h)

\* The places of the nodes that get a cell: the first of each truthy id
\* (every id is in positions).
NodesDrawn(nodes) ==
    LET Drawn(i) == /\ Truthy(Get(nodes[i].id))
                    /\ \A j \in 1..(i - 1) : Get(nodes[j].id) # Get(nodes[i].id)
    IN  SelectIdx([i \in 1..Len(nodes) |-> Drawn(i)], 1)

\* "NODES": the cell of one node; group_cells holds the ids of the groups drawn
NodeCell(node, positions, group_cells) ==
    LET nid == node.id.v
        xy == positions[node.id]
        parent == IF Truthy(Get(node.group)) /\ Get(node.group) \in group_cells
                  THEN "g_" \o node.group.v ELSE "1"
    IN  VertexCell("n_" \o nid, html_escape(GetD(node.name, node.id).v), node_style(node),
                   parent, xy[1], xy[2], NODE_WIDTH, NODE_HEIGHT)

\* The places of the edges that get a cell: from and to truthy, the first of
\* each (from, to).
EdgesDrawn(edges) ==
    LET Src(i) == GetD(edges[i].from, Str(""))
        Tgt(i) == GetD(edges[i].to, Str(""))
        Drawn(i) == /\ Truthy(Src(i)) /\ Truthy(Tgt(i))
                    /\ \A j \in 1..(i - 1) : <<Src(j), Tgt(j)>> # <<Src(i), Tgt(i)>>
    IN  SelectIdx([i \in 1..Len(edges) |-> Drawn(i)], 1)

\* The endpoint, had the edge taken the plan's id for the cell's.
EndpointCellRaw(node_cells, nid) == nid.v

\* node_cells.get(src, src)
EndpointCell(node_cells, nid) == IF nid \in node_cells THEN "n_" \o nid.v ELSE nid.v

\* "EDGES": the cell of one edge and, when it has a label, the label's cell.
\* The midpoint is a whole number whenever both ends have a position.
EdgeCells(edge, positions, node_cells) ==
    LET src == edge.from
        tgt == edge.to
        label == GetD(edge.label, Str(""))
        s == IF src \in DOMAIN positions THEN positions[src] ELSE <<0, 0>>
        t == IF tgt \in DOMAIN positions THEN positions[tgt] ELSE <<0, 0>>
        lx == (s[1] + t[1]) \div 2 + NODE_WIDTH \div 2
        ly == (s[2] + t[2]) \div 2 - 15
    IN  <<EdgeCell("e_" \o src.v \o "_" \o tgt.v, edge_style,
                   EndpointCell(node_cells, src), EndpointCell(node_cells, tgt))>>
        \o (IF Truthy(label)
            THEN <<VertexCell("l_" \o src.v \o "_" \o tgt.v, html_escape(label.v),
                              EdgeLabelStyle, "1", lx - 50, ly, 100, 20)>>
            ELSE <<>>)

\* "LEGEND": the swatch and the label of one of the first 4 lanes
LegendCells(lanes, i, legend_x) ==
    LET lane == lanes[i]
        colors == get_lane_colors(lane)
        ly == DIAGRAM_MARGIN + 25 + 22 * (i - 1)
    IN  <<VertexCell("leg_" \o lane.v, "", LegendSwatchStyle(colors.fill, colors.stroke), "1",
                     legend_x, ly, 16, 16),
          VertexCell("legl_" \o lane.v, html_escape(lane.v), LegendLabelStyle, "1",
                     legend_x + 22, ly, 100, 16)>>

\* idx holds i
InSeq(idx, i) == \E k \in 1..Len(idx) : idx[k] = i

\* What makes plan_to_mxgraph raise:
\*   lanes that cannot be iterated, or sliced for the legend;
\*   node["id"] of a node without id (KeyError in the layout);
\*   html.escape of a title, lane, group name, node name or label that is no str;
\*   group.get of a group that is no dict.
SynthRaises(p) ==
    LET lanesArg == OrElse(p.lanes, List(DEFAULT_LANES))
        lanes == Iterate(lanesArg)
        nodes == Iterate(GetD(p.nodes, List(<<>>)))
        groups == Iterate(OrElse(GetD(p.groups, List(<<>>)), List(<<>>)))
        edges == Iterate(OrElse(GetD(p.edges, List(<<>>)), List(<<>>)))
    IN  \/ lanesArg.t \in {"num", "bool"}
        \/ lanesArg.t = "obj" /\ Truthy(GetD(p.legend, Bool(TRUE)))
        \/ \E i \in 1..Len(nodes) : nodes[i].id.t = "missing"
        \/ GetD(p.title, Str("Architecture Diagram")).t # "str"
        \/ \E i \in 1..Len(lanes) : lanes[i].t # "str"
        \/ \E i \in 1..Len(groups) : ~IsDict(groups[i])
        \/ \E i \in 1..Len(groups) :
              InSeq(GroupsDrawn(groups), i) /\ GetD(groups[i].name, groups[i].id).t # "str"
        \/ \E i \in 1..Len(nodes) :
              InSeq(NodesDrawn(nodes), i) /\ GetD(nodes[i].name, nodes[i].id).t # "str"
        \/ \E i \in 1..Len(edges) :
              /\ InSeq(EdgesDrawn(edges), i)
              /\ Truthy(GetD(edges[i].label, Str("")))
              /\ edges[i].label.t # "str"

\* plan_to_mxgraph(plan): [raised, xml]
plan_to_mxgraph(p) ==
    IF SynthRaises(p) THEN [raised |-> TRUE, xml |-> Null]
    ELSE
    LET lanes == Iterate(OrElse(p.lanes, List(DEFAULT_LANES)))
        nodes == Iterate(GetD(p.nodes, List(<<>>)))
        groups == Iterate(OrElse(GetD(p.groups, List(<<>>)), List(<<>>)))
        edges == Iterate(OrElse(GetD(p.edges, List(<<>>)), List(<<>>)))
        positions == layout_nodes_in_lanes(nodes, lanes)
        size == calculate_diagram_size(positions, Len(lanes))
        width == size[1]
        height == size[2]
        title == GetD(p.title, Str("Architecture Diagram"))
        lane_width == width - DIAGRAM_MARGIN * 2
        gdrawn == GroupsDrawn(groups)
        group_cells == {groups[gdrawn[k]].id : k \in 1..Len(gdrawn)}
        ndrawn == NodesDrawn(nodes)
        node_cells == {nodes[ndrawn[k]].id : k \in 1..Len(ndrawn)}
        edrawn == EdgesDrawn(edges)
        legend_x == width - 200
    IN  [raised |-> FALSE,
         xml |-> [root |-> "mxGraphModel", dx |-> width, dy |-> height,
           wrap |-> "plain", diagram |-> <<>>,
           cells |->
               RootCells
            \o <<VertexCell(IntToStr(FIRST_CELL_ID), html_escape(title.v), TitleStyle, "1",
                            DIAGRAM_MARGIN, DIAGRAM_MARGIN, 400, 30)>>
            \o Flatten([i \in 1..Len(lanes) |-> LaneCells(lanes, i, lane_width)])
            \o [k \in 1..Len(gdrawn) |-> GroupCell(groups[gdrawn[k]], nodes, lanes, positions)]
            \o [k \in 1..Len(ndrawn) |-> NodeCell(nodes[ndrawn[k]], positions, group_cells)]
            \o Flatten([k \in 1..Len(edrawn) |-> EdgeCells(edges[edrawn[k]], positions, node_cells)])
            \o (IF Truthy(GetD(p.legend, Bool(TRUE)))
                THEN <<VertexCell("legend", "Legend", LegendStyle, "1",
                                  legend_x, DIAGRAM_MARGIN, 80, 20)>>
                     \o Flatten([i \in 1..Min(4, Len(lanes)) |-> LegendCells(lanes, i, legend_x)])
                ELSE <<>>)]]

(***************************************************************************)
(* validate.validate_xml                                                   *)
(***************************************************************************)
XmlEntities ==
    <<<<"&amp;", "&">>, <<"&lt;", "<">>, <<"&gt;", ">">>, <<"&quot;", "\"">>,
      <<"&apos;", "'">>, <<"&#x27;", "'">>>>

\* The entity reference s starts with (0: none).
EntityAt(s) ==
    LET at == {k \in 1..Len(XmlEntities) :
                  /\ Len(s) >= Len(XmlEntities[k][1])
                  /\ Prefix(s, Len(XmlEntities[k][1])) = XmlEntities[k][1]}
    IN  IF at = {} THEN 0 ELSE CHOOSE k \in at : TRUE

RECURSIVE XmlAttrOK(_)
\* An attribute text the XML parser accepts: no '<', and every '&' starts an
\* entity reference.
XmlAttrOK(s) ==
    IF s = "" THEN TRUE
    ELSE IF CharAt(s, 1) = "<" THEN FALSE
    ELSE IF CharAt(s, 1) = "&"
         THEN EntityAt(s) # 0 /\ XmlAttrOK(Suffix(s, Len(XmlEntities[EntityAt(s)][1])))
    ELSE XmlAttrOK(Suffix(s, 1))

RECURSIVE XmlUnescape(_)
\* The attribute value the parser hands out for an accepted text.
XmlUnescape(s) ==
    IF s = "" THEN ""
    ELSE IF CharAt(s, 1) = "&"
         THEN XmlEntities[EntityAt(s)][2] \o XmlUnescape(Suffix(s, Len(XmlEntities[EntityAt(s)][1])))
    ELSE CharAt(s, 1) \o XmlUnescape(Suffix(s, 1))

\* ET.fromstring(xml_text) succeeds: the text is one element and nothing
\* else (wrap is "plain": no code fence around it, no attribute twice on its
\* root, not blank), and the parser accepts every attribute text
ParseOK(doc) ==
    /\ doc.wrap = "plain"
    /\ \A i \in 1..Len(doc.cells) :
        LET c == doc.cells[i]
        IN  /\ XmlAttrOK(c.id) /\ XmlAttrOK(c.parent)
            /\ XmlAttrOK(c.source) /\ XmlAttrOK(c.target)
            /\ XmlAttrOK(c.value.v)

\* cell.get('value'), None when the attribute is absent
CellValue(c) == IF c.value.t = "str" THEN Str(XmlUnescape(c.value.v)) ELSE Null

\* _parse_style(style).get(key): the value of the last part with that key,
\* '1' for a bare key, None without one
parse_style(style, key) ==
    LET at == {i \in 1..Len(style) : style[i][1] = key}
    IN  IF at = {} THEN Null
        ELSE LET part == style[CHOOSE i \in at : \A j \in at : j <= i]
             IN  Str(IF Len(part) = 1 THEN "1" ELSE part[2])

\* _bbox(geom)
bbox(geom) == <<geom.x, geom.y, geom.x + geom.width, geom.y + geom.height>>

\* _overlap(a, b)
overlap(a, b) == ~(a[3] <= b[1] \/ b[3] <= a[1] \/ a[4] <= b[2] \/ b[4] <= a[2])

IsVertex(c) == c.vertex = "1" /\ c.geom.kind # "none"

\* The test that sends a vertex to texts and not to nodes.
IsText(c) ==
    \/ Truthy(parse_style(c.style, "text"))
    \/ parse_style(c.style, "shape") = Str("text")
    \/ Truthy(CellValue(c)) /\ parse_style(c.style, "strokeColor") = Str("none")

\* The _is_dark local to validate_xml: lum < 0.45
validate_is_dark(c0) ==
    LET c == IF c0 # "" /\ CharAt(c0, 1) = "#" THEN c0 ELSE "#" \o c0
    IN  IsHexColour(c) /\ Luminance(c) * 20 < 9 * 2550000

RECOGNIZED_ARROWS == {"block", "classic", "open"}

\* The issues of the loop "Colors present" for one node
ColourIssues(n) ==
    LET fillc == IF parse_style(n.style, "fillColor").t = "str"
                 THEN parse_style(n.style, "fillColor").v ELSE "#ffffff"
        font == IF parse_style(n.style, "fontColor").t = "str"
                THEN parse_style(n.style, "fontColor").v ELSE "#111111"
    IN  (IF parse_style(n.style, "fillColor").t # "str"
         THEN <<"Node " \o n.id \o " missing fillColor">> ELSE <<>>)
     \o (IF validate_is_dark(fillc) /\ (font = "" \/ Lower(font) \in {"#000", "#000000", "#333", "#222"})
         THEN <<"Low contrast text on " \o n.id \o " (dark fill + dark font)">> ELSE <<>>)
     \o (IF ~validate_is_dark(fillc) /\ Lower(font) \in {"#fff", "#ffffff"}
         THEN <<"Low contrast text on " \o n.id \o " (light fill + light font)">> ELSE <<>>)

\* "Goal-aligned labels": texts entries hold no 'value', so only the values
\* of nodes are looked at
GoalIssue(goal, nodes, trigger, needle, issue) ==
    IF Contains(goal, trigger)
       /\ ~\E i \in 1..Len(nodes) : Contains(Lower(OrElse(CellValue(nodes[i]), Str("")).v), needle)
    THEN <<issue>> ELSE <<>>

\* validate_xml raises: _bbox is called outside the try, and float() of a
\* geometry attribute that is no number raises ValueError
validate_raises(doc) ==
    /\ ParseOK(doc)
    /\ \E i \in 1..Len(doc.cells) :
          doc.cells[i].vertex = "1" /\ doc.cells[i].geom.kind = "nan"

\* validate_xml(xml_text, user_goal) of a document: the report {ok, issues}
validate_xml(doc, goal0) ==
    IF ~ParseOK(doc) THEN [ok |-> FALSE, issues |-> <<"XML parse error">>]
    ELSE
    LET cells == [i \in 1..Len(doc.cells) |->
                    [doc.cells[i] EXCEPT !.id = XmlUnescape(doc.cells[i].id)]]
        IsNode(c) == IsVertex(c) /\ ~IsText(c)
        IsEdge(c) == c.edge = "1"
        nodes == Pick(cells, SelectIdx([i \in 1..Len(cells) |-> IsNode(cells[i])], 1))
        edges == Pick(cells, SelectIdx([i \in 1..Len(cells) |-> IsEdge(cells[i])], 1))
        goal == Lower(goal0)
        pairs == Flatten([i \in 1..Len(nodes) |->
                    Flatten([d \in 1..(Len(nodes) - i) |->
                        IF overlap(bbox(nodes[i].geom), bbox(nodes[i + d].geom))
                        THEN <<"Overlap: " \o nodes[i].id \o " with " \o nodes[i + d].id>>
                        ELSE <<>>])])
        issues ==
               (IF doc.root # "mxGraphModel" THEN <<"Root is not mxGraphModel">> ELSE <<>>)
            \o (IF Len(nodes) = 0 THEN <<"No nodes found">> ELSE <<>>)
            \o (IF Len(edges) = 0 THEN <<"No edges found">>
                ELSE Flatten([i \in 1..Len(edges) |->
                        IF parse_style(edges[i].style, "endArrow").t = "str"
                           /\ parse_style(edges[i].style, "endArrow").v \in RECOGNIZED_ARROWS
                        THEN <<>>
                        ELSE <<"Edge " \o edges[i].id \o " missing endArrow">>]))
            \o pairs
            \o Flatten([i \in 1..Len(nodes) |-> ColourIssues(nodes[i])])
            \o GoalIssue(goal, nodes, "event", "event", "Missing Events label or node")
            \o GoalIssue(goal, nodes, "api", "api", "Missing API label or node")
            \o GoalIssue(goal, nodes, "monitor", "monitor", "Missing Monitoring node/label")
            \o GoalIssue(goal, nodes, "security", "secur", "Missing Security boundary/label")
    IN  [ok |-> Len(issues) = 0, issues |-> issues]

(***************************************************************************)
(* render.drawio_xml_to_svg                                                *)
(*                                                                         *)
(* The image is the sequence of the elements of its text in the order they *)
(* are written, each the record of its tag, of the id of the cell it is    *)
(* drawn for, of its colour (fill of a shape, stroke of a line, fill of a  *)
(* text) and of its text.  The coordinates are not carried.                *)
(***************************************************************************)
Letters == Uppers \o Lowers

\* Every character of s is one of chars.
AllIn(s, chars) == \A i \in 1..Len(s) : Contains(chars, CharAt(s, i))

\* What follows an '&' is [a-zA-Z]+; or #\d+; or #x[0-9A-Fa-f]+; : the
\* re.sub of drawio_xml_to_svg leaves such an '&' alone
LooksLikeReference(rest) ==
    \E n \in 2..Len(rest) :
        /\ CharAt(rest, n) = ";"
        /\ LET body == Prefix(rest, n - 1)
           IN  \/ AllIn(body, Letters)
               \/ Len(body) >= 2 /\ CharAt(body, 1) = "#" /\ AllIn(Suffix(body, 1), Digits)
               \/ Len(body) >= 3 /\ Prefix(body, 2) = "#x"
                  /\ AllIn(Suffix(body, 2), HexDigits \o "ABCDEF")

RECURSIVE FixAmpersands(_)
\* re.sub(r"&(?![a-zA-Z]+;|#\d+;|#x[0-9A-Fa-f]+;)", "&amp;", xml_text), on
\* the text of an attribute
FixAmpersands(s) ==
    IF s = "" THEN ""
    ELSE IF CharAt(s, 1) = "&" /\ ~LooksLikeReference(Suffix(s, 1))
         THEN "&amp;" \o FixAmpersands(Suffix(s, 1))
    ELSE CharAt(s, 1) \o FixAmpersands(Suffix(s, 1))

\* ET.fromstring succeeds on the text _sanitize_mxgraphmodel and the re.sub
\* made of the document: the code fence is gone, and so is the second
\* occurrence of an attribute of an mxGraphModel root
RenderParseOK(doc) ==
    /\ \/ doc.wrap \in {"plain", "fenced"}
       \/ doc.wrap = "dupattrs" /\ doc.root = "mxGraphModel"
    /\ \A i \in 1..Len(doc.cells) :
        LET c == doc.cells[i]
        IN  /\ XmlAttrOK(FixAmpersands(c.id)) /\ XmlAttrOK(FixAmpersands(c.parent))
            /\ XmlAttrOK(FixAmpersands(c.source)) /\ XmlAttrOK(FixAmpersands(c.target))
            /\ XmlAttrOK(FixAmpersands(c.value.v))

RECURSIVE HtmlUnescape(_)
\* html.unescape(s), of the references of XmlEntities
HtmlUnescape(s) ==
    IF s = "" THEN ""
    ELSE IF CharAt(s, 1) = "&" /\ EntityAt(s) # 0
         THEN XmlEntities[EntityAt(s)][2] \o HtmlUnescape(Suffix(s, Len(XmlEntities[EntityAt(s)][1])))
    ELSE CharAt(s, 1) \o HtmlUnescape(Suffix(s, 1))

\* What the parser hands out for an attribute of the repaired text.
RenderAttr(s) == XmlUnescape(FixAmpersands(s))

\* html.unescape(cell.get("value") or "")
RenderValue(c) == IF c.value.t = "str" THEN HtmlUnescape(RenderAttr(c.value.v)) ELSE ""

\* render._parse_style(style).get(key, default)
StyleGet(style, key, default) ==
    IF parse_style(style, key).t = "str" THEN parse_style(style, key).v ELSE default

COLOR_MAP ==
    ("white" :> "#ffffff") @@ ("black" :> "#000000") @@ ("red" :> "#ff0000")
 @@ ("green" :> "#00ff00") @@ ("blue" :> "#0000ff") @@ ("gray" :> "#888888")
 @@ ("none" :> "none")

\* render._normalize_color(v, default)
normalize_color(v, default) ==
    IF v = "" THEN default
    ELSE IF CharAt(v, 1) = "#" THEN v
    ELSE IF Len(v) = 6 /\ \A i \in 1..6 : IsHexChar(CharAt(v, i)) THEN "#" \o v
    ELSE IF Lower(v) \in DOMAIN COLOR_MAP THEN COLOR_MAP[Lower(v)]
    ELSE default

\* int(s, 16) of a text of two characters does not raise: two hexadecimal
\* digits, or one after a sign or a blank, or one before a blank
Int16OK(s) ==
    \/ IsHexChar(CharAt(s, 1)) /\ IsHexChar(CharAt(s, 2))
    \/ CharAt(s, 1) \in {"+", "-", " "} /\ IsHexChar(CharAt(s, 2))
    \/ IsHexChar(CharAt(s, 1)) /\ CharAt(s, 2) = " "

\* int(s, 16) of such a text
Int16(s) ==
    IF IsHexChar(CharAt(s, 1)) /\ IsHexChar(CharAt(s, 2)) THEN Hex2(s)
    ELSE IF CharAt(s, 1) = "-" THEN 0 - HexOf[LowerChar(CharAt(s, 2))]
    ELSE IF CharAt(s, 2) = " " THEN HexOf[LowerChar(CharAt(s, 1))]
    ELSE HexOf[LowerChar(CharAt(s, 2))]

\* render._is_dark, had it drawn the line at 0.45 as the validator does.
render_is_dark_below_045(hex_color) ==
    LET c == hex_color
    IN  IF c = "" \/ c = "none" THEN FALSE
        ELSE IF CharAt(c, 1) # "#" \/ Len(c) # 7 THEN FALSE
        ELSE IF ~(Int16OK(SubSeq(c, 2, 3)) /\ Int16OK(SubSeq(c, 4, 5)) /\ Int16OK(SubSeq(c, 6, 7)))
        THEN FALSE
        ELSE (2126 * Int16(SubSeq(c, 2, 3)) + 7152 * Int16(SubSeq(c, 4, 5))
              + 722 * Int16(SubSeq(c, 6, 7))) * 20 < 9 * 2550000

\* render._is_dark: lum < 0.5, False for a text that is no '#' and six
\* characters int(.., 16) reads
render_is_dark(hex_color) ==
    LET c == hex_color
    IN  IF c = "" \/ c = "none" THEN FALSE
        ELSE IF CharAt(c, 1) # "#" \/ Len(c) # 7 THEN FALSE
        ELSE IF ~(Int16OK(SubSeq(c, 2, 3)) /\ Int16OK(SubSeq(c, 4, 5)) /\ Int16OK(SubSeq(c, 6, 7)))
        THEN FALSE
        ELSE (2126 * Int16(SubSeq(c, 2, 3)) + 7152 * Int16(SubSeq(c, 4, 5))
              + 722 * Int16(SubSeq(c, 6, 7))) * 2 < 2550000

\* render._text_color_for_bg
text_color_for_bg(bg_color) == IF render_is_dark(bg_color) THEN "#ffffff" ELSE "#1a1a1a"

\* float(s) does not raise, of the texts the model holds: digits
IsFloatText(s) == s # "" /\ AllIn(s, Digits)

RECURSIVE NatOf(_)
\* float(s) of such a text
NatOf(s) ==
    IF s = "" THEN 0
    ELSE 10 * NatOf(Prefix(s, Len(s) - 1))
         + ((CHOOSE d \in 1..10 : CharAt(Digits, d) = CharAt(s, Len(s))) - 1)

Part(tag, cell, colour, text) == [tag |-> tag, cell |-> cell, colour |-> colour, text |-> text]

\* <svg ...><text ... fill='red'>XML Parse Error: ...</text></svg>
ParseErrorSvg == <<Part("text", "", "red", "XML Parse Error")>>

\* <svg ...><text ... fill='#666'>No diagram elements</text></svg>
NoElementsSvg == <<Part("text", "", "#666", "No diagram elements")>>

\* vertex_order(v)
vertex_order(st) ==
    IF Truthy(parse_style(st, "opacity")) \/ Truthy(parse_style(st, "fillOpacity")) THEN 0
    ELSE IF Truthy(parse_style(st, "dashed")) THEN 1
    ELSE IF parse_style(st, "text").t = "str" \/ parse_style(st, "strokeColor") = Str("none")
    THEN 2
    ELSE 3

\* The test "Text-only elements" of the loop over the vertices.
IsTextOnly(st) ==
    parse_style(st, "text").t = "str" \/ parse_style(st, "strokeColor") = Str("none")

\* fill_op > 0.3, fill_op being 1.0 when float() rejects one of the two
\* opacities
LabelVisible(st) ==
    LET opacity == StyleGet(st, "opacity", "100")
        fill_opacity == StyleGet(st, "fillOpacity", "100")
    IN  IF IsFloatText(opacity) /\ IsFloatText(fill_opacity)
        THEN NatOf(fill_opacity) > 30 ELSE TRUE

\* The pass of the loop "Render vertices" for one vertex raises: float() of
\* its fontSize
VertexRaises(c) ==
    LET font_ok == IsFloatText(StyleGet(c.style, "fontSize", "12"))
    IN  IF IsTextOnly(c.style) THEN ~font_ok
        ELSE RenderValue(c) # "" /\ LabelVisible(c.style) /\ ~font_ok

\* value if len(value) <= 25 else value[:22] + "..."
DisplayValue(value) == IF Len(value) <= 25 THEN value ELSE Prefix(value, 22) \o "..."

\* The elements the loop "Render vertices" writes for one vertex.
VertexParts(c) ==
    LET st == c.style
        value == RenderValue(c)
        fill == normalize_color(StyleGet(st, "fillColor", "#f5f5f5"), "#f5f5f5")
        shape == StyleGet(st, "shape", "")
        font_color == IF StyleGet(st, "fontColor", "") = "" THEN text_color_for_bg(fill)
                      ELSE normalize_color(StyleGet(st, "fontColor", ""), "#333")
    IN  IF IsTextOnly(st)
        THEN IF value # ""
             THEN <<Part("text", c.id,
                         normalize_color(StyleGet(st, "fontColor", "#333"), "#333"),
                         html_escape(value))>>
             ELSE <<>>
        ELSE (IF Contains(shape, "cylinder")
              THEN <<Part("rect", c.id, fill, ""), Part("ellipse", c.id, fill, "")>>
              ELSE IF Contains(shape, "hexagon")
              THEN <<Part("polygon", c.id, fill, "")>>
              ELSE <<Part("rect", c.id, fill, "")>>)
          \o (IF value # "" /\ LabelVisible(st)
              THEN <<Part("text", c.id, font_color, html_escape(DisplayValue(value)))>>
              ELSE <<>>)

\* The values of the dict vertices in its order: one entry per id, at the
\* place of the first cell of that id, holding the last cell of that id.
VertexDict(cells) ==
    LET vs == Pick(cells, SelectIdx([i \in 1..Len(cells) |-> IsVertex(cells[i])], 1))
        first == SelectIdx([i \in 1..Len(vs) |->
                              \A j \in 1..(i - 1) : vs[j].id # vs[i].id], 1)
    IN  [k \in 1..Len(first) |->
            vs[CHOOSE i \in 1..Len(vs) :
                  /\ vs[i].id = vs[first[k]].id
                  /\ \A j \in (i + 1)..Len(vs) : vs[j].id # vs[i].id]]

\* sorted(vertices.values(), key=vertex_order): the sort is stable
SortedVertices(vs) ==
    Flatten([o \in 1..4 |->
        Pick(vs, SelectIdx([i \in 1..Len(vs) |-> vertex_order(vs[i].style) = o - 1], 1))])

\* The elements of "Render edges first": a line for each edge whose source
\* and target are vertices.
EdgeParts(cells, vs) ==
    LET ids == {vs[i].id : i \in 1..Len(vs)}
        IsLine(c) == ~IsVertex(c) /\ c.edge = "1" /\ c.source \in ids /\ c.target \in ids
        es == Pick(cells, SelectIdx([i \in 1..Len(cells) |-> IsLine(cells[i])], 1))
    IN  [k \in 1..Len(es) |->
            Part("line", es[k].id,
                 normalize_color(StyleGet(es[k].style, "strokeColor", "#333"), "#333"), "")]

\* drawio_xml_to_svg from "cells = root.findall" on, of the cells with the
\* attribute values the parser hands out
RenderCells(cells) ==
    LET vs == VertexDict(cells)
        sorted == SortedVertices(vs)
    IN  IF \E i \in 1..Len(cells) : cells[i].vertex = "1" /\ cells[i].geom.kind = "nan"
        THEN [raised |-> TRUE, svg |-> Null]
        ELSE IF Len(vs) = 0 THEN [raised |-> FALSE, svg |-> NoElementsSvg]
        ELSE IF \E i \in 1..Len(sorted) : VertexRaises(sorted[i])
        THEN [raised |-> TRUE, svg |-> Null]
        ELSE [raised |-> FALSE,
              svg |-> <<Part("rect", "", "#ffffff", "")>>
                      \o EdgeParts(cells, vs)
                      \o Flatten([i \in 1..Len(sorted) |-> VertexParts(sorted[i])])]

RECURSIVE drawio_xml_to_svg(_)
\* drawio_xml_to_svg(xml_text) of a document: [raised, svg]
drawio_xml_to_svg(doc) ==
    IF ~RenderParseOK(doc) THEN [raised |-> FALSE, svg |-> ParseErrorSvg]
    ELSE IF doc.root # "mxGraphModel"
    THEN IF doc.root = "mxfile" /\ doc.diagram # <<>>
         THEN drawio_xml_to_svg(doc.diagram[1])
         ELSE [raised |-> TRUE, svg |-> Null]
    ELSE RenderCells([i \in 1..Len(doc.cells) |->
            [doc.cells[i] EXCEPT !.id = RenderAttr(@), !.source = RenderAttr(@),
                                 !.target = RenderAttr(@)]])

(***************************************************************************)
(* The plans and goals the pipeline is run on                              *)
(***************************************************************************)
\* The longest list of nodes of a small plan.
MaxNodes == 2

\* How many nodes more than MAX_NODES a large plan has at most.
MaxExtra == 1

\* The longest list of edges of a large plan.
MaxCapEdges == 2

Node(id, name, lane, type, group) ==
    [id |-> id, name |-> name, lane |-> lane, type |-> type, group |-> group,
     scope |-> Missing]

Edge(from, to, label) == [from |-> from, to |-> to, label |-> label]

Group(id, name, lane, style) == [id |-> id, name |-> name, lane |-> lane, style |-> style]

Plan(title, nodes, edges, groups, lanes, legend) ==
    [title |-> title, nodes |-> nodes, edges |-> edges, groups |-> groups,
     lanes |-> lanes, legend |-> legend]

\* The sequences over S of length at most n.
SeqsUpTo(S, n) == UNION {[1..k -> S] : k \in 0..n}

\* Nodes of every kind the code tells apart: typed, laned (a lane of the
\* list, none, one the list lacks), grouped, a container, a second node of
\* one id, an empty id, no id, a null name, no name, a long name.
NodePool ==
    { Node(Str("a"), Str("API Gateway"), Missing, Str("integration"), Missing),
      Node(Str("b"), Str("DB"), Missing, Str("data"), Missing),
      Node(Str("a"), Str("Web"), Str("Foo"), Missing, Str("g1")),
      Node(Str("x"), Str("VPC Cluster"), Missing, Missing, Missing),
      Node(Str("c"), Missing, Str("Experience"), Str("external"), Str("g1")),
      Node(Missing, Str("NoId"), Missing, Missing, Missing),
      Node(Str("d"), Null, Str("Data"), Missing, Missing),
      Node(Str("e"), Str("Customer Notification Service"), Str("Data"),
           Str("security"), Str("g1")),
      Node(Str(""), Str("Blank"), Str("Bar"), Missing, Missing) }

EdgeLists ==
    { Missing,
      List(<<Edge(Str("a"), Str("b"), Str("SQL"))>>),
      List(<<Edge(Str("a"), Str("b"), Str("SQL")),
             Edge(Str("a"), Str("b"), Str("again")),
             Edge(Str("b"), Str("a"), Str("replicates changes to"))>>),
      List(<<Edge(Str("a"), Str("x"), Str("in")),
             Edge(Str("c"), Str("a"), Missing),
             Edge(Str("e"), Str("c"), Str("notify")),
             Edge(Str("e"), Str("zz"), Str("lost"))>>),
      List(<<Edge(Str("a"), Str("a"), Null)>>),
      List(<<Edge(Str(""), Str("a"), Str("blank")),
             Edge(Missing, Str("b"), Missing)>>),
      List(<<Edge(Str("a"), Str("b"), Str("synchronises orders with")),
             Edge(Str("a"), Str("b"), Str("SQL")),
             Edge(Str("a"), Str("b"), Str("synchronises orders with"))>>) }

PlainGoal == "build a shop"

LongGoal == "secure the public api and monitor every event of the checkout flow"

\* What surrounds the nodes and edges of a small plan.
Contexts ==
    { [title |-> Missing, groups |-> Missing, lanes |-> Missing,
       legend |-> Missing, goal |-> PlainGoal],
      [title |-> Missing, lanes |-> Missing, legend |-> Missing, goal |-> LongGoal,
       groups |-> List(<<Group(Str("g1"), Str("Core"), Str("Data"), Missing)>>)],
      [title |-> Str("Shop"), legend |-> Bool(FALSE), goal |-> PlainGoal,
       lanes |-> List(<<Str("Data"), Str("Experience")>>),
       groups |-> List(<<Group(Str("g1"), Missing, Missing, Str("solid")),
                         Group(Str("x"), Str("Existing"), Str("Experience"), Missing)>>)],
      [title |-> Missing, groups |-> List(<<>>), legend |-> Missing, goal |-> "",
       lanes |-> List(<<Str("Platform & Security")>>)] }

SmallPlans ==
    { [goal |-> c.goal,
       plan |-> Plan(c.title, List(ns), es, c.groups, c.lanes, c.legend)] :
        ns \in SeqsUpTo(NodePool, MaxNodes), es \in EdgeLists, c \in Contexts }

\* Values of nodes, edges and groups that are no list of dicts.
FieldValues ==
    { Missing, Null, Str("abc"), Str(""), Num("5"), Num("0"), Obj(<<"a">>), Obj(<<>>),
      Bool(TRUE), List(<<>>) }

CoercionPlans ==
    { [goal |-> PlainGoal, plan |-> Plan(Missing, ns, es, gs, Missing, Missing)] :
        ns \in FieldValues, es \in FieldValues, gs \in FieldValues }

\* Node k of a large plan
CapNode(k) ==
    Node(Str("n" \o IntToStr(k)), Str("N" \o IntToStr(k)), Missing, Missing, Missing)

VpcNode == Node(Str("v"), Str("vpc"), Missing, Missing, Missing)

CapEdgePool ==
    { Edge(Str("n9"), Str("v"), Missing),
      Edge(Str("n9"), Str("n8"), Str("calls")),
      Edge(Str("n10"), Str("n9"), Missing),
      Edge(Str("n3"), Str("n3"), Missing),
      Edge(Str("n2"), Str("n9"), Str("reads")) }

\* Plans of more than MAX_NODES nodes, with a container before them, after
\* them or without one.
CapPlans ==
    { [goal |-> PlainGoal,
       plan |-> Plan(Missing,
                     List((IF where = "first" THEN <<VpcNode>> ELSE <<>>)
                          \o [k \in 1..(MAX_NODES + extra) |-> CapNode(k)]
                          \o (IF where = "last" THEN <<VpcNode>> ELSE <<>>)),
                     List(es), Missing, Missing, Missing)] :
        extra \in 1..MaxExtra, where \in {"none", "first", "last"},
        es \in SeqsUpTo(CapEdgePool, MaxCapEdges) }

\* Edges that touch every one of the first nine nodes of a large plan, and
\* the container: whichever node the limit drops, an edge goes with it.
RingEdges ==
    <<Edge(Str("n1"), Str("n2"), Str("calls")),
      Edge(Str("n3"), Str("n4"), Missing),
      Edge(Str("n5"), Str("n6"), Missing),
      Edge(Str("n7"), Str("n8"), Missing),
      Edge(Str("n9"), Str("n1"), Str("reports")),
      Edge(Str("n9"), Str("v"), Missing)>>

\* Plans of more than MAX_NODES nodes, each of them with an edge.
RingPlans ==
    { [goal |-> PlainGoal,
       plan |-> Plan(Missing,
                     List([k \in 1..(MAX_NODES + extra) |-> CapNode(k)]
                          \o (IF where = "last" THEN <<VpcNode>> ELSE <<>>)),
                     List(RingEdges), Missing, Missing, Missing)] :
        extra \in 1..MaxExtra, where \in {"none", "last"} }

\* A name for each keyword of CONTAINER_KEYWORDS, in the letters a model
\* writes it with, and names that come close to a keyword.
ContainerNames ==
    <<"Prod VPC", "Private Subnet", "EKS Cluster", "Core NETWORK", "Region eu-west",
      "Availability Zone", "K8s Namespace", "Staging Environment", "Trust Boundary",
      "Perimeter">>

NearNames == <<"Net Work", "VP Console", "Zonal Cache">>

\* Plans of the node a and one more node: a node named after a keyword, a
\* node whose id holds a keyword, a node whose name comes close to one.
ContainerPlans ==
    { [goal |-> PlainGoal,
       plan |-> Plan(Missing,
                     List(<<Node(Str("a"), Str("API Gateway"), Missing, Missing, Missing), n>>),
                     List(<<Edge(Str("a"), n.id, Missing)>>),
                     Missing, Missing, Missing)] :
        n \in {Node(Str("k" \o IntToStr(k)), Str(ContainerNames[k]), Missing, Missing, Missing) :
                  k \in 1..Len(ContainerNames)}
            \cup {Node(Str(CONTAINER_KEYWORDS[k] \o "-1"), Str("Apps"), Missing, Missing, Missing) :
                  k \in 1..Len(CONTAINER_KEYWORDS)}
            \cup {Node(Str("m" \o IntToStr(k)), Str(NearNames[k]), Missing, Missing, Missing) :
                  k \in 1..Len(NearNames)} }

\* A plan of names of 20 and of 21 characters, of a long id without a name,
\* and of labels of 15 and of 16 characters.
LengthPlans ==
    { [goal |-> PlainGoal,
       plan |-> Plan(Missing,
                     List(<<Node(Str("p"), Str("Payment Orchestrator"), Missing, Missing, Missing),
                            Node(Str("q"), Str("Payments Orchestrator"), Missing, Missing, Missing),
                            Node(Str("customer-notification-svc-01"), Missing, Missing,
                                 Missing, Missing)>>),
                     List(<<Edge(Str("p"), Str("q"), Str("publishes event")),
                            Edge(Str("q"), Str("p"), Str("publishes events"))>>),
                     Missing, Missing, Missing)] }

\* Lane lists: none, an empty one, lists of one to six lanes, of a lane
\* LANE_COLORS lacks, and lists that name a lane twice.
LaneLists ==
    { Missing, List(<<>>),
      List(<<Str("Data")>>),
      List(<<Str("Application"), Str("Operations")>>),
      List(<<Str("Data"), Str("Data")>>),
      List(<<Str("Data"), Str("Experience"), Str("Data")>>),
      List(<<Str("Experience"), Str("Data"), Str("Data"), Str("Application")>>),
      List(<<Str("Experience"), Str("Application"), Str("Data"),
             Str("Platform & Security"), Str("External"), Str("Operations")>>) }

\* Plans of at most one node and one edge over every lane list, with and
\* without a legend.
LanePlans ==
    { [goal |-> PlainGoal,
       plan |-> Plan(Str("Shop"), List(ns), List(es), Missing, lanes, legend)] :
        ns \in SeqsUpTo({Node(Str("a"), Str("API Gateway"), Str("Data"), Missing, Missing),
                         Node(Str("b"), Str("DB"), Missing, Str("data"), Missing)}, 1),
        es \in {<<>>, <<Edge(Str("a"), Str("a"), Str("self"))>>},
        lanes \in LaneLists, legend \in {Missing, Bool(FALSE)} }

\* Plans whose node ids hold the '_' that plan_to_mxgraph joins the ends of
\* an edge with: the edges a_b -> c and a -> b_c, with and without labels.
IdPlans ==
    { [goal |-> PlainGoal,
       plan |-> Plan(Missing,
                     List(<<Node(Str("a_b"), Str("Orders"), Missing, Missing, Missing),
                            Node(Str("c"), Str("Cache"), Missing, Missing, Missing),
                            Node(Str("a"), Str("API"), Str("Data"), Missing, Missing),
                            Node(Str("b_c"), Str("Billing"), Str("Data"), Missing, Missing)>>),
                     List(es), Missing, Missing, Bool(FALSE))] :
        es \in SeqsUpTo({Edge(Str("a_b"), Str("c"), Str("reads")),
                         Edge(Str("a"), Str("b_c"), Str("bills")),
                         Edge(Str("a"), Str("c"), Missing)}, 2) }

Inputs ==
    SmallPlans \cup CoercionPlans \cup CapPlans \cup RingPlans \cup ContainerPlans
        \cup LengthPlans \cup LanePlans \cup IdPlans

(***************************************************************************)
(* The pipeline: normalize_plan, plan_to_mxgraph, validate_xml             *)
(***************************************************************************)
\* No generation loop runs.
NoLoop ==
    /\ max_iters = 0
    /\ iter = 0
    /\ trace = <<>>
    /\ events = <<>>
    /\ result = Null

\* No MCP flow runs: the server is not looked at, the builder is not made.
NoMcp ==
    /\ server = "down"
    /\ changes = 0
    /\ plans = <<>>
    /\ building = 0
    /\ cell_ids = <<>>
    /\ canvas = <<>>
    /\ edge_calls = <<>>

Init ==
    /\ pc = "start"
    /\ \E in \in Inputs : user_goal = in.goal /\ plan = in.plan
    /\ g = Null
    /\ xml = Null
    /\ report = Null
    /\ svg = Null
    /\ NoLoop
    /\ NoMcp

\* g = normalize_plan(user_goal, plan)
NormalizePlan ==
    /\ pc = "start"
    /\ LET r == normalize_plan(user_goal, plan)
       IN  /\ pc' = IF r.raised THEN "normalize_raised" ELSE "normalized"
           /\ g' = r.g
           /\ plan' = r.plan
    /\ UNCHANGED <<user_goal, xml, report, svg, loopvars, mcpvars>>

\* xml = plan_to_mxgraph(g)
PlanToMxgraph ==
    /\ pc = "normalized"
    /\ LET r == plan_to_mxgraph(g)
       IN  /\ pc' = IF r.raised THEN "synth_raised" ELSE "synthesized"
           /\ xml' = r.xml
    /\ UNCHANGED <<user_goal, plan, g, report, svg, loopvars, mcpvars>>

\* report = validate_xml(xml, user_goal)
ValidateXml ==
    /\ pc = "synthesized"
    /\ report' = IF validate_raises(xml) THEN Null ELSE validate_xml(xml, user_goal)
    /\ pc' = IF validate_raises(xml) THEN "validate_raised" ELSE "validated"
    /\ UNCHANGED <<user_goal, plan, g, xml, svg, loopvars, mcpvars>>

Next == NormalizePlan \/ PlanToMxgraph \/ ValidateXml

Spec == Init /\ [][Next]_vars

(***************************************************************************)
(* validate_xml and drawio_xml_to_svg on documents handed in               *)
(***************************************************************************)
\* The longest list of cells of a document built from CellPool.
MaxCells == 3

Doc(root, wrap, diagram, cells) ==
    [root |-> root, dx |-> 1200, dy |-> 800, wrap |-> wrap, diagram |-> diagram,
     cells |-> cells]

\* <mxCell ... edge="1"> with an arrow validate_xml knows
ArrowEdge(id, source, target) ==
    EdgeCell(id, <<<<"strokeColor", "#333333">>, <<"endArrow", "block">>>>, source, target)

\* Cells as plan_to_mxgraph writes them: a lane background, a group, two
\* nodes, an edge label; an edge; a node whose geometry is no number; a node
\* whose value holds a bare '&'.
CellPool ==
    { VertexCell("lane_0", "", LaneBgStyle("#e8f4fd"), "1", 40, 80, 1120, 130),
      VertexCell("g_core", "Core", group_style("1"), "1", 50, 90, 400, 110),
      VertexCell("n_a", "API Gateway",
                 node_style(Node(Str("a"), Str("API Gateway"), Str("Experience"),
                                 Missing, Missing)),
                 "1", 60, 115, 160, 60),
      VertexCell("n_b", "Event Store",
                 node_style(Node(Str("b"), Str("Event Store"), Str("Data"),
                                 Str("data"), Missing)),
                 "1", 260, 115, 160, 60),
      VertexCell("l_a_b", "security events", EdgeLabelStyle, "1", 210, 95, 60, 20),
      ArrowEdge("e_a_b", "n_a", "n_b"),
      [VertexCell("n_c", "Cache", ShapeRounded, "1", 0, 0, 0, 0) EXCEPT !.geom = NanGeometry],
      VertexCell("n_d", "R&D", ShapeRounded \o <<<<"fillColor", "#f39c12">>>>,
                 "1", 460, 115, 160, 60) }

PlainCell(id, value, style) == VertexCell(id, value, style, "1", 60, 115, 160, 60)

\* Documents of other forms: a value the parser rejects, another root, an
\* mxfile without diagram text, with the text of a document and with a blank
\* text, a document in a code fence, a root with an attribute twice, a
\* fontSize that is no number (on a text and on a node), two cells of one id.
SpecialDocs ==
    { Doc("mxGraphModel", "plain", <<>>, <<PlainCell("n_a", "a &nbsp; b", ShapeRounded)>>),
      Doc("mxGraphModel", "plain", <<>>, <<PlainCell("n_a", "a < b", ShapeRounded)>>),
      Doc("svg", "plain", <<>>, <<>>),
      Doc("diagram", "plain", <<>>, <<PlainCell("n_a", "API", ShapeRounded)>>),
      Doc("mxfile", "plain", <<>>, <<PlainCell("n_a", "API", ShapeRounded)>>),
      Doc("mxfile", "plain",
          <<Doc("mxGraphModel", "plain", <<>>, <<PlainCell("n_a", "API", ShapeRounded)>>)>>,
          <<>>),
      Doc("mxfile", "plain", <<Doc("", "blank", <<>>, <<>>)>>, <<>>),
      Doc("mxGraphModel", "fenced", <<>>, <<PlainCell("n_a", "API", ShapeRounded)>>),
      Doc("mxGraphModel", "dupattrs", <<>>, <<PlainCell("n_a", "API", ShapeRounded)>>),
      Doc("mxfile", "dupattrs", <<>>, <<PlainCell("n_a", "API", ShapeRounded)>>),
      Doc("mxGraphModel", "plain", <<>>,
          <<PlainCell("t", "", <<<<"text">>, <<"fontSize", "large">>>>)>>),
      Doc("mxGraphModel", "plain", <<>>,
          <<PlainCell("n_a", "API", <<<<"fontSize", "">>, <<"opacity", "x">>>>)>>),
      Doc("mxGraphModel", "plain", <<>>,
          <<PlainCell("n_a", "API", <<<<"fontSize", "">>, <<"fillOpacity", "20">>>>)>>),
      Doc("mxGraphModel", "plain", <<>>,
          <<PlainCell("n_a", "First", ShapeRounded), PlainCell("n_b", "B", ShapeData),
            PlainCell("n_a", "Monitoring of every single event", ShapeSecurity),
            ArrowEdge("e", "n_b", "n_a"), ArrowEdge("e2", "n_b", "zz")>>) }

\* The two hexadecimal digits of a colour channel.
Channels == {"00", "2C", "3E", "50", "7f", "80", "F0", "F7", "FF"}

\* Documents of one node without fontColor, of every fill of the channels
\* and of fills that are no '#' and six hexadecimal digits.
ColourDocs ==
    { Doc("mxGraphModel", "plain", <<>>,
          <<PlainCell("n_a", "API", <<<<"fillColor", fill>>>>)>>) :
        fill \in {"#" \o r \o gr \o b : r \in Channels, gr \in Channels, b \in Channels}
                 \cup {"2C3E50", "#2C3", "none", "white", "#-f+f f", "#gggggg", ""} }

Documents ==
    {Doc("mxGraphModel", "plain", <<>>, cs) : cs \in SeqsUpTo(CellPool, MaxCells)}
        \cup SpecialDocs

\* A goal of the trigger words api and security.
ReviewGoal == "API security review"

\* A document and a goal handed in.
DocInit ==
    /\ pc = "document"
    /\ \/ xml \in Documents /\ user_goal \in {PlainGoal, LongGoal, ReviewGoal}
       \/ xml \in ColourDocs /\ user_goal = PlainGoal
    /\ plan = Null
    /\ g = Null
    /\ report = Null
    /\ svg = Null
    /\ NoLoop
    /\ NoMcp

\* report = validate_xml(xml, user_goal)
ValidateDocument ==
    /\ pc = "document"
    /\ report' = IF validate_raises(xml) THEN Null ELSE validate_xml(xml, user_goal)
    /\ pc' = IF validate_raises(xml) THEN "validate_raised" ELSE "validated"
    /\ UNCHANGED <<user_goal, plan, g, xml, svg, loopvars, mcpvars>>

\* svg = drawio_xml_to_svg(xml)
RenderDocument ==
    /\ pc = "document"
    /\ LET r == drawio_xml_to_svg(xml)
       IN  /\ pc' = IF r.raised THEN "render_raised" ELSE "rendered"
           /\ svg' = r.svg
    /\ UNCHANGED <<user_goal, plan, g, xml, report, loopvars, mcpvars>>

DocNext == ValidateDocument \/ RenderDocument

DocSpec == DocInit /\ [][DocNext]_vars

(***************************************************************************)
(* agent.agentic_generate and agent.agentic_generate_stream                *)
(*                                                                         *)
(* An answer of the model to the request for a plan is the record of the   *)
(* form of its text and of the JSON value the text holds:                  *)
(*   "json"      the text of the value,                                    *)
(*   "fenced"    the text of the value between code fences,                *)
(*   "prefixed"  the text of the value after "PLAN:",                      *)
(*   "prose"     a text without any '{'.                                   *)
(* A JSON object is a plan record; any other JSON value is a record [t, v].*)
(***************************************************************************)
\* The most iterations a generation loop is called with.
MaxIters == 2

Answer(form, value) == [form |-> form, value |-> value]

\* parse_plan_json(raw): [raised, plan].  The fences and the prefix are
\* taken off and the value of the text is returned; a text without '{' and
\* '}' passes every stage and raises ValueError.
parse_plan_json(raw) ==
    IF raw.form \in {"json", "fenced", "prefixed"}
    THEN [raised |-> FALSE, plan |-> raw.value]
    ELSE [raised |-> TRUE, plan |-> Null]

\* The value is a JSON object.
IsPlanDict(value) == "nodes" \in DOMAIN value

\* bool(plan) of the loop's variable plan: None, an empty list and {} are
\* falsy
PlanTruthy(value) ==
    IF IsPlanDict(value)
    THEN \E k \in DOMAIN value : value[k].t # "missing"
    ELSE Truthy(value)

\* normalize_plan(user_goal, plan) of what parse_plan_json returned: a value
\* that is no dict has no get() (a number has no copy()), and the call
\* raises AttributeError
normalize_parsed(goal, value) ==
    IF IsPlanDict(value) THEN normalize_plan(goal, value)
    ELSE [raised |-> TRUE, g |-> Null, plan |-> value]

\* plan_to_mxgraph(plan) of the loop's variable plan: a value that is no
\* dict has no get()
synthesize(value) ==
    IF IsPlanDict(value) THEN plan_to_mxgraph(value)
    ELSE [raised |-> TRUE, xml |-> Null]

RECURSIVE Strip(_)
\* s.strip() of a text whose whitespace is spaces
Strip(s) ==
    IF s = "" THEN ""
    ELSE IF CharAt(s, 1) = " " THEN Strip(Suffix(s, 1))
    ELSE IF CharAt(s, Len(s)) = " " THEN Strip(Prefix(s, Len(s) - 1))
    ELSE s

\* is_drawio_xml(txt): the text starts with <mxGraphModel or <mxfile
is_drawio_xml(doc) == doc.wrap = "plain" /\ doc.root \in {"mxGraphModel", "mxfile"}

\* The ok of self_check(client, user_goal, xml_text), the model's answer
\* being verdict.
self_check(verdict) ==
    \/ Prefix(Lower(Strip(verdict)), 2) = "ok"
    \/ Contains(Lower(verdict), "compliant") /\ ~Contains(Lower(verdict), "not")

\* Answers of the model to the request for a plan: a plan that normalizes
\* and is drawn, prose, a plan normalize_plan raises on while
\* plan_to_mxgraph draws it (a null label), one both raise on (a null name),
\* one normalize_plan returns and plan_to_mxgraph raises on (a node without
\* id), one with null for its lanes, an empty list and an empty object.
Answers ==
    { Answer("fenced",
             Plan(Missing,
                  List(<<Node(Str("a"), Str("API Gateway"), Missing, Str("integration"), Missing),
                         Node(Str("b"), Str("DB"), Missing, Str("data"), Missing)>>),
                  List(<<Edge(Str("a"), Str("b"), Str("SQL"))>>),
                  Missing, Missing, Missing)),
      Answer("prose", Null),
      Answer("json",
             Plan(Missing,
                  List(<<Node(Str("a"), Str("Web"), Missing, Missing, Missing)>>),
                  List(<<Edge(Str("a"), Str("a"), Null)>>),
                  Missing, Missing, Bool(FALSE))),
      Answer("prefixed",
             Plan(Missing,
                  List(<<Node(Str("d"), Null, Str("Data"), Missing, Missing)>>),
                  Missing, Missing, Missing, Missing)),
      Answer("json",
             Plan(Str("Shop"),
                  List(<<Node(Missing, Str("NoId"), Missing, Missing, Missing)>>),
                  Missing, Missing, Missing, Missing)),
      Answer("json",
             Plan(Str("Shop"),
                  List(<<Node(Str("c"), Str("Cache"), Missing, Missing, Missing)>>),
                  Missing, Missing, Null, Bool(FALSE))),
      Answer("json", List(<<>>)),
      Answer("json", Plan(Missing, Missing, Missing, Missing, Missing, Missing)) }

\* Answers of the model to the request for a review.
Verdicts == {"OK", " ok - compliant", "Not compliant: no gateway", "Missing API gateway"}

\* An entry of trace: the iteration, whether it is the entry of a plan that
\* did not parse or normalize, the plan, and format_ok, the ok of the
\* semantic check and the ok of local_validation.
TraceEntry(i, error, p, format_ok, ok_sem, local_ok) ==
    [iteration |-> i, error |-> error, plan |-> p,
     format_ok |-> format_ok, ok_sem |-> ok_sem, local_ok |-> local_ok]

\* The goals the generation loops are called with.
GenGoals == {PlainGoal, LongGoal}

\* What the statements of one pass of the loop make of the answer raw:
\* whether parse_plan_json returned, whether normalize_plan returned too, the
\* parsed object as normalize_plan left it, the plan g it returned, whether
\* plan_to_mxgraph(g) returned, its document, and format_ok and the ok of
\* validate_xml.
DraftOf(goal, parsed, r, x, drawn) ==
    [parsed |-> ~parsed.raised,
     normalized |-> ~parsed.raised /\ ~r.raised,
     left |-> r.plan,
     g |-> r.g,
     drawn |-> drawn,
     doc |-> x.xml,
     format_ok |-> drawn /\ is_drawio_xml(x.xml),
     local_ok |-> drawn /\ is_drawio_xml(x.xml) /\ validate_xml(x.xml, goal).ok]

Draft(goal, raw) ==
    CHOOSE d \in UNION { UNION { { DraftOf(goal, parse_plan_json(raw), r, x,
                                           ~r.raised /\ ~x.raised)
                                   } : x \in {synthesize(r.g)} }
                         : r \in {normalize_parsed(goal, parse_plan_json(raw).plan)} } : TRUE

GenInit ==
    /\ pc = "generate"
    /\ user_goal \in GenGoals
    /\ max_iters \in 0..MaxIters
    /\ plan = Null
    /\ xml = Null
    /\ g = Null
    /\ report = Null
    /\ svg = Null
    /\ iter = 0
    /\ trace = <<>>
    /\ events = <<>>
    /\ result = Null
    /\ NoMcp

\* One pass of "for i in range(max_iters)" of agentic_generate.
AgenticIterate ==
    /\ pc = "generate"
    /\ iter < max_iters
    /\ iter' = iter + 1
    /\ \E raw \in Answers : \E d \in {Draft(user_goal, raw)} :
          LET failed == TraceEntry(iter + 1, TRUE, Null, FALSE, FALSE, FALSE)
          IN  IF ~d.parsed
              THEN /\ trace' = Append(trace, failed)
                   /\ UNCHANGED <<pc, plan, xml>>
              ELSE IF ~d.normalized
              THEN /\ plan' = d.left
                   /\ trace' = Append(trace, failed)
                   /\ UNCHANGED <<pc, xml>>
              ELSE IF ~d.drawn
              THEN /\ plan' = d.g
                   /\ pc' = "generate_raised"
                   /\ UNCHANGED <<trace, xml>>
              ELSE \E verdict \in Verdicts :
                      LET ok_sem == d.format_ok /\ self_check(verdict)
                          all_ok == d.format_ok /\ ok_sem /\ d.local_ok
                      IN  /\ plan' = d.g
                          /\ trace' = Append(trace, TraceEntry(iter + 1, FALSE, d.g,
                                                d.format_ok, ok_sem, d.local_ok))
                          /\ pc' = IF all_ok THEN "generate_break" ELSE "generate"
                          /\ xml' = IF all_ok THEN d.doc ELSE xml
    /\ UNCHANGED <<user_goal, g, report, svg, max_iters, events, result, mcpvars>>

\* return {"xml": xml or plan_to_mxgraph(plan) if plan else "", ...}
AgenticReturn ==
    /\ \/ pc = "generate" /\ iter = max_iters
       \/ pc = "generate_break"
    /\ LET x == IF xml # Null THEN [raised |-> FALSE, xml |-> xml] ELSE synthesize(plan)
       IN  IF ~PlanTruthy(plan)
           THEN pc' = "generate_done" /\ result' = Str("")
           ELSE IF x.raised
           THEN pc' = "generate_raised" /\ result' = Null
           ELSE pc' = "generate_done" /\ result' = x.xml
    /\ UNCHANGED <<user_goal, plan, g, xml, report, svg, max_iters, iter, trace, events,
                   mcpvars>>

GenNext == AgenticIterate \/ AgenticReturn

GenSpec == GenInit /\ [][GenNext]_vars

\* An event of a stream: its type, the phase of a "phase" event, the
\* iteration of an "iteration" event, and its data: the plan of a "plan"
\* event, the xml of a "final" event, the ok of a "verify" event.
Event(type, phase, iteration, data) ==
    [type |-> type, phase |-> phase, iteration |-> iteration, data |-> data]

PhaseEvent(phase) == Event("phase", phase, 0, Null)

ReasoningEvent == Event("reasoning", "", 0, Null)

\* len(x) returns
HasLen(x) == x.t \in {"list", "str", "obj"}

\* KeptPlan of a stream that forgets its plan when a try fails.
KeptPlanOfThisTry(old, d) == IF d.normalized THEN d.g ELSE Null

\* The plan the stream keeps in its variable plan after a try of
\* parse_plan_json and normalize_plan whose draft is d: plan is assigned when
\* both returned and keeps its value otherwise.
KeptPlan(old, d) == IF d.normalized THEN d.g ELSE old

\* The events of one pass of agentic_generate_stream up to the first try.
PassHead(i) ==
    <<Event("iteration", "", i, Null), PhaseEvent("analyze"), PhaseEvent("design")>>

\* The rest of a pass of agentic_generate_stream whose try returned the
\* draft d, evs being the events of the pass so far.
StreamDesigned(evs, d) ==
    LET planned == evs \o <<Event("plan", "", 0, d.g)>>
        drawing == planned \o <<ReasoningEvent, PhaseEvent("synthesize")>>
    IN  IF ~HasLen(OrElse(d.g.lanes, List(<<>>)))
        THEN \* len(plan.get('lanes', [])) raises
             /\ events' = events \o planned
             /\ pc' = "stream_raised"
        ELSE IF ~d.drawn
        THEN /\ events' = events \o drawing
             /\ pc' = "stream_raised"
        ELSE IF ~d.format_ok
        THEN /\ events' = events \o drawing \o <<PhaseEvent("synthesize malformed")>>
             /\ UNCHANGED pc
        ELSE \E verdict \in Verdicts, fixes \in BOOLEAN :
                LET all_ok == d.format_ok /\ self_check(verdict) /\ d.local_ok
                    verified == drawing \o <<PhaseEvent("validate"),
                                             Event("verify", "", 0, Bool(all_ok))>>
                IN  IF all_ok
                    THEN /\ events' = events \o verified
                                         \o <<ReasoningEvent, Event("final", "", 0, d.doc)>>
                         /\ pc' = "stream_done"
                    ELSE /\ events' = events \o verified \o <<PhaseEvent("refine")>>
                                         \o (IF fixes
                                             THEN <<Event("fixes", "", 0, Null), ReasoningEvent>>
                                             ELSE <<>>)
                         /\ UNCHANGED pc

StreamInit ==
    /\ pc = "stream"
    /\ user_goal \in GenGoals
    /\ max_iters \in 0..MaxIters
    /\ plan = Null
    /\ xml = Null
    /\ g = Null
    /\ report = Null
    /\ svg = Null
    /\ iter = 0
    /\ trace = <<>>
    /\ events = <<>>
    /\ result = Null
    /\ NoMcp

\* One pass of "for i in range(max_iters)" of agentic_generate_stream.
StreamIterate ==
    /\ pc = "stream"
    /\ iter < max_iters
    /\ iter' = iter + 1
    /\ \E raw \in Answers : \E d \in {Draft(user_goal, raw)} :
          IF d.normalized
          THEN /\ plan' = KeptPlan(plan, d)
               /\ StreamDesigned(PassHead(iter + 1), d)
          ELSE \E raw2 \in Answers : \E d2 \in {Draft(user_goal, raw2)} :
                  /\ plan' = KeptPlan(KeptPlan(plan, d), d2)
                  /\ IF d2.normalized
                     THEN StreamDesigned(PassHead(iter + 1) \o <<PhaseEvent("design retry")>>, d2)
                     ELSE /\ events' = events \o PassHead(iter + 1)
                                          \o <<PhaseEvent("design retry"),
                                               PhaseEvent("design failed")>>
                          /\ UNCHANGED pc
    /\ UNCHANGED <<user_goal, g, xml, report, svg, max_iters, trace, result, mcpvars>>

\* The statements of agentic_generate_stream after its loop.
StreamFinish ==
    /\ pc = "stream"
    /\ iter = max_iters
    /\ \E x \in {IF PlanTruthy(plan) THEN synthesize(plan) ELSE [raised |-> FALSE, xml |-> Null]} :
          IF ~PlanTruthy(plan)
          THEN pc' = "stream_done" /\ UNCHANGED events
          ELSE IF x.raised
          THEN pc' = "stream_raised" /\ UNCHANGED events
          ELSE /\ pc' = "stream_done"
               /\ events' = events \o <<ReasoningEvent, Event("final", "", 0, x.xml)>>
    /\ UNCHANGED <<user_goal, plan, g, xml, report, svg, max_iters, iter, trace, result,
                   mcpvars>>

StreamNext == StreamIterate \/ StreamFinish

StreamSpec == StreamInit /\ [][StreamNext]_vars

(***************************************************************************)
(* mcp_agent.hybrid_generate_stream, mcp_agent.mcp_multi_agent_stream and  *)
(* mcp_client.ArchitectureDiagramBuilder                                   *)
(*                                                                         *)
(* The MCP server goes up and down on its own; a request (the health       *)
(* check, add_rectangle, add_edge) succeeds when the server is up at that  *)
(* moment.  One action is one request of the flow together with the        *)
(* statements and yields that follow it up to the next request.  The       *)
(* OpenAI client is configured and its calls return.  A cell id is the     *)
(* place of the cell in canvas.                                            *)
(***************************************************************************)
\* How often the server goes up or down during one run.
MaxChanges == 2

\* max_iters of agentic_generate_stream when the caller names none
DEFAULT_MAX_ITERS == 3

\* architects of mcp_multi_agent_stream
Architects == <<"Alpha", "Beta", "Gamma">>

\* Answers of the model to an architect's request: a plan of two nodes, a
\* plan that has the first node alone and an edge to the second, and prose.
McpAnswers ==
    { Answer("fenced",
             Plan(Missing,
                  List(<<Node(Str("a"), Str("Web"), Str("Application"), Missing, Missing),
                         Node(Str("b"), Str("DB"), Str("App"), Missing, Missing)>>),
                  List(<<Edge(Str("a"), Str("b"), Str("SQL"))>>),
                  Missing, List(<<Str("Application")>>), Missing)),
      Answer("json",
             Plan(Missing,
                  List(<<Node(Str("a"), Str("Web"), Missing, Missing, Missing)>>),
                  List(<<Edge(Str("a"), Str("b"), Str("SQL"))>>),
                  Missing, List(<<Str("Application")>>), Missing)),
      Answer("prose", Null) }

\* plan.get(key, []) of build_from_plan, a list
GetList(x) == IF x.t = "missing" THEN <<>> ELSE x.v

\* The lane of lane_nodes build_from_plan appends the node to, "" when it
\* appends it to none: the node's lane when the list has it, else the first
\* lane of the list that holds the node's lane or is held by it, else the
\* first lane; none when the list is empty.
LaneOfNode(node, lanes) ==
    LET node_lane == IF node.lane.t = "missing" THEN "Application" ELSE node.lane.v
        fuzzy == {i \in 1..Len(lanes) :
                     \/ Contains(Lower(node_lane), Lower(lanes[i].v))
                     \/ Contains(Lower(lanes[i].v), Lower(node_lane))}
    IN  IF \E i \in 1..Len(lanes) : lanes[i].v = node_lane THEN node_lane
        ELSE IF lanes = <<>> THEN ""
        ELSE IF fuzzy # {} THEN lanes[CHOOSE i \in fuzzy : \A j \in fuzzy : i <= j].v
        ELSE lanes[1].v

\* The nodes in the order build_from_plan creates them: lane by lane of the
\* list, the nodes of lane_nodes[lane] in the order of the plan.
RECURSIVE NodesInLaneOrder(_, _, _)
NodesInLaneOrder(nodes, lanes, i) ==
    IF i > Len(lanes) THEN <<>>
    ELSE SelectSeq(nodes, LAMBDA node : LaneOfNode(node, lanes) = lanes[i].v)
             \o NodesInLaneOrder(nodes, lanes, i + 1)

BuildOrder(p) == NodesInLaneOrder(GetList(p.nodes), GetList(p.lanes), 1)

\* self.cell_ids.get(id)
CellOf(ids, id) == IF id \in DOMAIN ids THEN ids[id] ELSE 0

\* Where the flow stands when, building the k-th plan of ps, the loop of
\* phase is about to start its pass i: the position of the next request and
\* the events yielded on the way to it.  An exhausted loop hands over to the
\* next one, the last loop to the next plan, the last plan to the end.
RECURSIVE Settle(_, _, _, _)
Settle(ps, k, phase, i) ==
    LET skip(evs, to) == [to EXCEPT !.yielded = evs \o to.yielded]
    IN  CASE phase = "plan" ->
                 IF k > Len(ps)
                 THEN [pc |-> "hybrid_done", building |-> 0, iter |-> 0,
                       yielded |-> <<Event("complete", "", 0, Null)>>]
                 ELSE [pc |-> "build_header", building |-> k, iter |-> 0,
                       yielded |-> <<PhaseEvent("build")>>]
          [] phase = "lanes" ->
                 IF i < Len(GetList(ps[k].lanes))
                 THEN [pc |-> "build_lanes", building |-> k, iter |-> i, yielded |-> <<>>]
                 ELSE skip(<<PhaseEvent("components")>>, Settle(ps, k, "nodes", 0))
          [] phase = "nodes" ->
                 IF i < Len(BuildOrder(ps[k]))
                 THEN [pc |-> "build_nodes", building |-> k, iter |-> i, yielded |-> <<>>]
                 ELSE skip(<<PhaseEvent("connecting")>>, Settle(ps, k, "edges", 0))
          [] phase = "edges" ->
                 IF i < Len(GetList(ps[k].edges))
                 THEN [pc |-> "build_edges", building |-> k, iter |-> i, yielded |-> <<>>]
                 ELSE Settle(ps, k + 1, "plan", 0)

\* The flow moves to the position to, having yielded evs before.
MoveTo(evs, to) ==
    /\ pc' = to.pc
    /\ building' = to.building
    /\ iter' = to.iter
    /\ events' = events \o evs \o to.yielded

\* The positions of the flow whose next statement is a request to the
\* server, the first health check apart: the server is up or down from the
\* start.
RequestPcs == {"mcp_connect", "build_header", "build_lanes", "build_nodes",
               "build_edges"}

McpInit ==
    /\ pc = "hybrid"
    /\ user_goal = PlainGoal
    /\ plan = Null
    /\ xml = Null
    /\ g = Null
    /\ report = Null
    /\ svg = Null
    /\ NoLoop
    /\ server \in {"up", "down"}
    /\ changes = 0
    /\ plans = <<>>
    /\ building = 0
    /\ cell_ids = <<>>
    /\ canvas = <<>>
    /\ edge_calls = <<>>

\* The MCP server goes down or comes up while the flow runs.
ServerChanges ==
    /\ pc \in RequestPcs
    /\ changes < MaxChanges
    /\ changes' = changes + 1
    /\ server' = IF server = "up" THEN "down" ELSE "up"
    /\ UNCHANGED <<pc, user_goal, plan, g, xml, report, svg, loopvars,
                   plans, building, cell_ids, canvas, edge_calls>>

\* hybrid_generate_stream(user_goal, use_mcp=True) up to the generator it
\* delegates to: with a healthy server mcp_multi_agent_stream, else, after
\* the warning, agentic_generate_stream.
HybridStart ==
    /\ pc = "hybrid"
    /\ IF server = "up"
       THEN /\ pc' = "mcp_connect"
            /\ UNCHANGED <<events, max_iters>>
       ELSE /\ pc' = "stream"
            /\ max_iters' = DEFAULT_MAX_ITERS
            /\ events' = <<Event("warning", "", 0, Null)>>
    /\ UNCHANGED <<user_goal, plan, g, xml, report, svg, iter, trace, result, mcpvars>>

\* mcp_multi_agent_stream up to its first architect: the health check of
\* its own client, then the analysis.
McpConnect ==
    /\ pc = "mcp_connect"
    /\ IF server = "down"
       THEN /\ events' = events \o <<PhaseEvent("init"),
                                     Event("connection_check", "", 0, Bool(FALSE))>>
            /\ pc' = "hybrid_done"
       ELSE /\ events' = events \o <<PhaseEvent("init"),
                                     Event("connection_check", "", 0, Bool(TRUE)),
                                     PhaseEvent("analyze"), ReasoningEvent>>
            /\ pc' = "design"
    /\ UNCHANGED <<user_goal, plan, g, xml, report, svg, max_iters, iter, trace, result,
                   mcpvars>>

\* One pass of "for name, persona, title in architects"; after the last
\* one, the builder is made and the building of the first plan starts.
Design ==
    /\ pc = "design"
    /\ \E raw \in McpAnswers :
          LET parsed == parse_plan_json(raw)
              \* plan["_title"] = title raises on a value that is no dict
              ok == ~parsed.raised /\ IsPlanDict(parsed.plan)
              ps == IF ok THEN Append(plans, parsed.plan) ELSE plans
              yielded == <<PhaseEvent("design"),
                           IF ok THEN Event("plan", "", 0, parsed.plan)
                           ELSE Event("error", "", 0, Null)>>
          IN  /\ plans' = ps
              /\ IF iter + 1 < Len(Architects)
                 THEN /\ iter' = iter + 1
                      /\ events' = events \o yielded
                      /\ UNCHANGED <<pc, building>>
                 ELSE MoveTo(yielded \o <<PhaseEvent("build")>>, Settle(ps, 1, "plan", 0))
    \* builder = ArchitectureDiagramBuilder(mcp_client)
    /\ cell_ids' = <<>>
    /\ UNCHANGED <<user_goal, plan, g, xml, report, svg, max_iters, trace, result,
                   server, changes, canvas, edge_calls>>

\* The add_rectangle of the header of build_from_plan.
BuildHeader ==
    /\ pc = "build_header"
    /\ canvas' = IF server = "up"
                 THEN Append(canvas, [plan |-> building, kind |-> "header", id |-> ""])
                 ELSE canvas
    /\ MoveTo(<<PhaseEvent("layers")>>, Settle(plans, building, "lanes", 0))
    /\ UNCHANGED <<user_goal, plan, g, xml, report, svg, max_iters, trace, result,
                   server, changes, plans, cell_ids, edge_calls>>

\* One pass of "for i, lane in enumerate(lanes)" of build_from_plan.
BuildLane ==
    /\ pc = "build_lanes"
    /\ LET lane == GetList(plans[building].lanes)[iter + 1].v
       IN  /\ canvas' = IF server = "up"
                        THEN Append(canvas, [plan |-> building, kind |-> "lane", id |-> lane])
                        ELSE canvas
           /\ MoveTo(<<Event(IF server = "up" THEN "lane_created" ELSE "error", "", 0, Null)>>,
                     Settle(plans, building, "lanes", iter + 1))
    /\ UNCHANGED <<user_goal, plan, g, xml, report, svg, max_iters, trace, result,
                   server, changes, plans, cell_ids, edge_calls>>

\* One pass of "for node_idx, node in enumerate(nodes_in_lane)" of
\* build_from_plan.
BuildNode ==
    /\ pc = "build_nodes"
    /\ LET node == BuildOrder(plans[building])[iter + 1]
       IN  IF server = "down"
           THEN /\ MoveTo(<<>>, Settle(plans, building, "nodes", iter + 1))
                /\ UNCHANGED <<canvas, cell_ids>>
           ELSE /\ canvas' = Append(canvas, [plan |-> building, kind |-> "node",
                                            id |-> node.id.v])
                /\ IF node.id.t = "missing"
                   THEN \* node["id"] raises KeyError, the build of the plan ends
                        /\ MoveTo(<<Event("error", "", 0, Null)>>,
                                  Settle(plans, building + 1, "plan", 0))
                        /\ UNCHANGED cell_ids
                   ELSE /\ cell_ids' = (node.id.v :> Len(canvas) + 1) @@ cell_ids
                        /\ MoveTo(<<Event("node_created", "", 0, Null)>>,
                                  Settle(plans, building, "nodes", iter + 1))
    /\ UNCHANGED <<user_goal, plan, g, xml, report, svg, max_iters, trace, result,
                   server, changes, plans, edge_calls>>

\* One pass of "for edge in edges" of build_from_plan.
BuildEdge ==
    /\ pc = "build_edges"
    /\ LET edge == GetList(plans[building].edges)[iter + 1]
           source_cell == CellOf(cell_ids, edge.from.v)
           target_cell == CellOf(cell_ids, edge.to.v)
           called == source_cell # 0 /\ target_cell # 0
           created == called /\ server = "up"
       IN  /\ edge_calls' = IF called
                            THEN Append(edge_calls, [plan |-> building,
                                                     source |-> source_cell,
                                                     target |-> target_cell,
                                                     success |-> created])
                            ELSE edge_calls
           /\ canvas' = IF created
                        THEN Append(canvas, [plan |-> building, kind |-> "edge", id |-> ""])
                        ELSE canvas
           /\ MoveTo(IF created THEN <<Event("edge_created", "", 0, Null)>> ELSE <<>>,
                     Settle(plans, building, "edges", iter + 1))
    /\ UNCHANGED <<user_goal, plan, g, xml, report, svg, max_iters, trace, result,
                   server, changes, plans, cell_ids>>

McpNext ==
    \/ ServerChanges
    \/ HybridStart
    \/ McpConnect
    \/ Design
    \/ BuildHeader
    \/ BuildLane
    \/ BuildNode
    \/ BuildEdge
    \/ StreamIterate
    \/ StreamFinish

McpSpec == McpInit /\ [][McpNext]_vars

(***************************************************************************)
(* Properties                                                              *)
(***************************************************************************)
\* g holds the plan normalize_plan returned.
Normalized == pc \in {"normalized", "synthesized", "validated", "synth_raised"}

\* xml holds the document plan_to_mxgraph returned.
Synthesized == pc \in {"synthesized", "validated"}

StartsWith(s, p) == Len(s) >= Len(p) /\ Prefix(s, Len(p)) = p

\* The places in the document of the shapes of nodes, of groups, of edge
\* labels, and of the edges.
NodeShapes == {i \in 1..Len(xml.cells) :
                  xml.cells[i].vertex = "1" /\ StartsWith(xml.cells[i].id, "n_")}

GroupShapes == {i \in 1..Len(xml.cells) :
                   xml.cells[i].vertex = "1" /\ StartsWith(xml.cells[i].id, "g_")}

LabelShapes == {i \in 1..Len(xml.cells) :
                   xml.cells[i].vertex = "1" /\ StartsWith(xml.cells[i].id, "l_")}

EdgeShapes == {i \in 1..Len(xml.cells) : xml.cells[i].edge = "1"}

\* Two rectangles share no inner point.
Disjoint(a, b) ==
    \/ a.x + a.width <= b.x \/ b.x + b.width <= a.x
    \/ a.y + a.height <= b.y \/ b.y + b.height <= a.y

\* outer holds inner grown by pad on every side.
Encloses(outer, inner, pad) ==
    /\ outer.x <= inner.x - pad
    /\ inner.x + inner.width + pad <= outer.x + outer.width
    /\ outer.y <= inner.y - pad
    /\ inner.y + inner.height + pad <= outer.y + outer.height

\* The goal holds none of the words the validator looks for.
NoTriggerWord(goal) ==
    \A w \in {"event", "api", "monitor", "security"} : ~Contains(Lower(goal), w)

GatewayPlan ==
    Plan(Missing,
         List(<<Node(Str("a"), Str("API Gateway"), Missing, Str("integration"), Missing),
                Node(Str("b"), Str("DB"), Missing, Str("data"), Missing)>>),
         List(<<Edge(Str("a"), Str("b"), Str("SQL"))>>),
         Missing, Missing, Missing)

\* C1: the plan of the nodes a (API Gateway) and b (DB) and the edge a->b
\* (SQL), under a goal without trigger word, keeps its nodes and its edge in
\* normalize_plan, gets one shape per node, one edge cell and one edge label
\* from plan_to_mxgraph, and the report of validate_xml on that document is
\* ok with no issue.
C1_GatewayPlanValidates ==
    /\ (pc = "start" /\ plan = GatewayPlan /\ NoTriggerWord(user_goal)) =>
          LET r == normalize_plan(user_goal, plan)
          IN  ~r.raised /\ r.g.nodes = plan.nodes /\ r.g.edges = plan.edges
    /\ (Synthesized /\ NoTriggerWord(user_goal)
        /\ g = [GatewayPlan EXCEPT !.title = Str(user_goal), !.groups = List(<<>>)]) =>
          /\ {xml.cells[i].id : i \in NodeShapes} = {"n_a", "n_b"}
          /\ Cardinality(NodeShapes) = 2
          /\ Cardinality(EdgeShapes) = 1
          /\ Cardinality(LabelShapes) = 1
          /\ pc = "validated" => (report.ok /\ report.issues = <<>>)

\* C2: in the document of a normalized plan of 2 nodes or more, no two node
\* shapes (the cells n_<id>) overlap, whatever the lanes of the nodes.
C2_NodeShapesDisjoint ==
    (Synthesized /\ Len(g.nodes.v) >= 2) =>
        \A i \in NodeShapes : \A j \in NodeShapes :
            i < j => Disjoint(xml.cells[i].geom, xml.cells[j].geom)

\* C3: the rectangle of a group holds the rectangle of each of its member
\* nodes grown by GROUP_PADDING on every side.
C3_GroupEnclosesMembers ==
    Synthesized =>
        \A k \in GroupShapes : \A i \in NodeShapes : \A n \in 1..Len(g.nodes.v) :
            LET node == g.nodes.v[n]
            IN  (/\ node.group.t = "str" /\ node.id.t = "str"
                 /\ xml.cells[k].id = "g_" \o node.group.v
                 /\ xml.cells[i].id = "n_" \o node.id.v)
                => Encloses(xml.cells[k].geom, xml.cells[i].geom, GROUP_PADDING)

\* C4: in the document of a normalized plan, the source and the target of
\* every edge cell are ids of vertex cells of that document.
C4_EdgeEndsAreVertexCells ==
    Synthesized =>
        \A e \in EdgeShapes :
            /\ \E i \in 1..Len(xml.cells) :
                  xml.cells[i].vertex = "1" /\ xml.cells[i].id = xml.cells[e].source
            /\ \E i \in 1..Len(xml.cells) :
                  xml.cells[i].vertex = "1" /\ xml.cells[i].id = xml.cells[e].target

\* C4: a document with an edge cell between two different node shapes.
C4_Witness ==
    /\ Synthesized
    /\ \E e \in EdgeShapes : xml.cells[e].source # xml.cells[e].target

\* The plan had more than MAX_NODES nodes left after the demotion of its
\* containers: the caller's list holds them, in the order of the input.
Capped == Normalized /\ plan.nodes.t = "list" /\ Len(plan.nodes.v) > MAX_NODES

\* The node at place i of the caller's list is among the nodes returned.
Kept(i) == plan.nodes.v[i] \in Range(g.nodes.v)

\* The edges of the input plan.
InputEdges == IF plan.edges.t = "list" THEN plan.edges.v ELSE <<>>

\* The edges of the input plan between two of the nodes left after demotion.
RemainingEdges ==
    LET ids == {Get(plan.nodes.v[i].id) : i \in 1..Len(plan.nodes.v)}
        Stays(e) == Get(e.from) \in ids /\ Get(e.to) \in ids
    IN  Pick(InputEdges, SelectIdx([k \in 1..Len(InputEdges) |-> Stays(InputEdges[k])], 1))

\* How many of the edges touch the node at place i of the caller's list.
Incident(edges, i) ==
    Cardinality({k \in 1..Len(edges) :
        \/ Get(edges[k].from) = Get(plan.nodes.v[i].id)
        \/ Get(edges[k].to) = Get(plan.nodes.v[i].id)})

\* Over the given edges, every node kept has more incident edges than every
\* node dropped, or as many and an earlier place.
KeepsTheMostConnected(edges) ==
    \A i \in 1..Len(plan.nodes.v) : \A j \in 1..Len(plan.nodes.v) :
        (Kept(i) /\ ~Kept(j)) =>
            \/ Incident(edges, i) > Incident(edges, j)
            \/ Incident(edges, i) = Incident(edges, j) /\ i < j

C6_NormalizeIdempotent ==
    pc = "normalized" =>
        LET r == normalize_plan(user_goal, g)
        IN  /\ ~r.raised
            /\ r.g.title = g.title
            /\ r.g.nodes = g.nodes
            /\ r.g.edges = g.edges
            /\ r.g.groups = g.groups

\* C6: a plan of unique node ids, without container and without dangling
\* edge, that the first normalize_plan changed: a second edge a->b dropped,
\* a long label cut.
C6_Witness ==
    /\ pc = "normalized"
    /\ plan.edges.t = "list"
    /\ Len(g.groups.v) = 0
    /\ Len(g.nodes.v) >= 2 /\ Len(g.nodes.v) = Len(plan.nodes.v)
    /\ \A i \in 1..Len(g.nodes.v) : \A j \in 1..Len(g.nodes.v) :
          i # j => g.nodes.v[i].id # g.nodes.v[j].id
    /\ \A k \in 1..Len(plan.edges.v) : \E i \in 1..Len(g.nodes.v) : \E j \in 1..Len(g.nodes.v) :
          plan.edges.v[k].from = g.nodes.v[i].id /\ plan.edges.v[k].to = g.nodes.v[j].id
    /\ Len(g.edges.v) < Len(plan.edges.v)
    /\ \E k \in 1..Len(g.edges.v) :
          /\ g.edges.v[k].label.t = "str"
          /\ Len(g.edges.v[k].label.v) = 15
          /\ Suffix(g.edges.v[k].label.v, 12) = "..."

\* C7: on a plan whose nodes, edges and groups are lists of objects, neither
\* normalize_plan nor plan_to_mxgraph raises.
C7_NeverRaises ==
    (plan.nodes.t = "list" /\ plan.edges.t = "list" /\ plan.groups.t = "list") =>
        pc \notin {"normalize_raised", "synth_raised"}

\* A field that is missing, no list, or the empty list.
NoElements(x) == x.t # "list" \/ x.v = <<>>

\* C8: normalize_plan returns, with an empty list in the field, for nodes,
\* edges and groups that are missing or no list.
C8_NonListsBecomeEmpty ==
    (NoElements(plan.nodes) /\ NoElements(plan.edges) /\ NoElements(plan.groups)) =>
        /\ pc # "normalize_raised"
        /\ Normalized => /\ g.nodes = List(<<>>)
                         /\ g.edges = List(<<>>)
                         /\ g.groups = List(<<>>)

VpcOnlyPlan ==
    Plan(Missing, List(<<Node(Str("x"), Str("VPC Cluster"), Missing, Missing, Missing)>>),
         Missing, Missing, Missing, Missing)

\* C9: normalize_plan turns the plan of the single node x (VPC Cluster) into
\* a plan of zero nodes and the group x, and the report of validate_xml on
\* the document of that plan is not ok and holds 'No nodes found'.
C9_VpcOnlyPlanHasNoNodes ==
    /\ (pc = "start" /\ plan = VpcOnlyPlan) =>
          LET r == normalize_plan(user_goal, plan)
          IN  /\ ~r.raised
              /\ r.g.nodes = List(<<>>)
              /\ r.g.groups = List(<<Group(Str("x"), Str("VPC Cluster"), Missing, Missing)>>)
    /\ (pc = "validated"
        /\ g = [VpcOnlyPlan EXCEPT
                  !.title = Str(user_goal), !.nodes = List(<<>>), !.edges = List(<<>>),
                  !.groups = List(<<Group(Str("x"), Str("VPC Cluster"), Missing, Missing)>>)]) =>
          /\ ~report.ok
          /\ "No nodes found" \in Range(report.issues)

\* C10: no two nodes of a plan normalize_plan returned have the same id.
C10_NodeIdsUnique ==
    Normalized =>
        \A i \in 1..Len(g.nodes.v) : \A j \in 1..Len(g.nodes.v) :
            (i # j /\ g.nodes.v[i].id.t = "str") => g.nodes.v[i].id # g.nodes.v[j].id

\* The ids of the nodes of the plan returned, as the code reads them: None
\* for a node without id.
ReturnedNodeIds == {Get(g.nodes.v[i].id) : i \in 1..Len(g.nodes.v)}

\* C11: in a plan normalize_plan returned, the from and the to of every edge
\* are ids of nodes of the returned list of nodes, also after containers
\* were demoted and after the limit of MAX_NODES removed nodes.
C11_EdgeEndsAreReturnedNodes ==
    Normalized =>
        \A k \in 1..Len(g.edges.v) :
            /\ Get(g.edges.v[k].from) \in ReturnedNodeIds
            /\ Get(g.edges.v[k].to) \in ReturnedNodeIds

\* C11: a plan of more than MAX_NODES nodes with a container, where an edge
\* to the container and an edge of a node the limit dropped are gone and
\* other edges are returned.
C11_Witness ==
    /\ Capped
    /\ Len(g.groups.v) > 0
    /\ Len(g.edges.v) > 0
    /\ \E k \in 1..Len(InputEdges) :
          /\ Get(InputEdges[k].to) \in {Get(g.groups.v[j].id) : j \in 1..Len(g.groups.v)}
          /\ InputEdges[k] \notin Range(g.edges.v)
    /\ \E k \in 1..Len(InputEdges) : \E i \in 1..Len(plan.nodes.v) :
          /\ ~Kept(i)
          /\ Get(InputEdges[k].from) = Get(plan.nodes.v[i].id)
          /\ Get(InputEdges[k].to) \in ReturnedNodeIds
          /\ InputEdges[k] \notin Range(g.edges.v)

\* The (from, to) of an edge, as the code reads them.
EdgeKey(e) == <<Get(e.from), Get(e.to)>>

\* The text s as it is shown in at most max characters: the first keep
\* characters and '...' when it is longer.
Cut(s, max, keep) == IF Len(s) > max THEN Prefix(s, keep) \o "..." ELSE s

\* The label of an input edge as a returned edge carries it.
CutLabel(label) == IF label.t = "str" THEN Str(Cut(label.v, 15, 12)) ELSE label

\* The place of the first edge of the input with the (from, to) of e.
FirstOfPair(e) ==
    CHOOSE i \in 1..Len(InputEdges) :
        /\ EdgeKey(InputEdges[i]) = EdgeKey(e)
        /\ \A j \in 1..(i - 1) : EdgeKey(InputEdges[j]) # EdgeKey(e)

\* C12: in the plan normalize_plan returns, no two edges have the same
\* (from, to), and the edge returned for a (from, to) is the first edge of the
\* input with that pair: its from, its to, and its label (cut to 15
\* characters as every label is), so edges that differ in their label only
\* collapse to the first of them.
C12_FirstEdgeOfAPairKept ==
    [][(pc = "start" /\ pc' = "normalized") =>
        /\ \A i \in 1..Len(g'.edges.v) : \A j \in 1..Len(g'.edges.v) :
              i # j => EdgeKey(g'.edges.v[i]) # EdgeKey(g'.edges.v[j])
        /\ \A k \in 1..Len(g'.edges.v) :
              /\ \E i \in 1..Len(InputEdges) : EdgeKey(InputEdges[i]) = EdgeKey(g'.edges.v[k])
              /\ g'.edges.v[k] =
                    [InputEdges[FirstOfPair(g'.edges.v[k])] EXCEPT !.label = CutLabel(@)]]_vars

\* C12: the input held two edges of one (from, to) with different labels,
\* and the plan returned holds one edge of that pair, with the label of the
\* first.
C12_Witness ==
    /\ pc = "normalized"
    /\ \E i \in 1..Len(InputEdges) : \E j \in 1..Len(InputEdges) :
          /\ i < j
          /\ \A m \in 1..(i - 1) : EdgeKey(InputEdges[m]) # EdgeKey(InputEdges[i])
          /\ EdgeKey(InputEdges[i]) = EdgeKey(InputEdges[j])
          /\ InputEdges[i].label # InputEdges[j].label
          /\ Cardinality({k \in 1..Len(g.edges.v) :
                             EdgeKey(g.edges.v[k]) = EdgeKey(InputEdges[i])}) = 1
          /\ \E k \in 1..Len(g.edges.v) :
                /\ EdgeKey(g.edges.v[k]) = EdgeKey(InputEdges[i])
                /\ g.edges.v[k].label = InputEdges[i].label

\* The nodes and the groups of the input plan.
InputNodes == IF plan.nodes.t = "list" THEN plan.nodes.v ELSE <<>>

InputGroups == IF plan.groups.t = "list" THEN plan.groups.v ELSE <<>>

\* The lower-cased name or id of the node holds a keyword of the fixed set.
MatchesKeyword(node) ==
    \E kw \in {"vpc", "subnet", "cluster", "network", "region", "zone",
                "namespace", "environment", "boundary", "perimeter"} :
        \/ node.name.t = "str" /\ Contains(Lower(node.name.v), kw)
        \/ node.id.t = "str" /\ Contains(Lower(node.id.v), kw)

\* The node as a returned list of nodes carries it: its name, or its id
\* when it has no name, cut to 20 characters.
CutName(node) ==
    LET name == GetD(node.name, GetD(node.id, Str(""))).v
    IN  IF Len(name) > 20 THEN [node EXCEPT !.name = Str(Cut(name, 20, 17))] ELSE node

\* How many of the groups have the id.
GroupsOfId(groups, id) == Cardinality({j \in 1..Len(groups) : Get(groups[j].id) = id})

\* Every matching node of the input is gone from the nodes of the result
\* and its id is the id of a group of the result, of one group more than in
\* the input only when the input had no group of that id.
MatchingNodesBecomeGroups(in, out, inG, outG) ==
    /\ \A k \in 1..Len(out) : ~MatchesKeyword(out[k])
    /\ \A i \in 1..Len(in) : MatchesKeyword(in[i]) =>
          GroupsOfId(outG, Get(in[i].id)) =
              IF GroupsOfId(inG, Get(in[i].id)) = 0 THEN 1
              ELSE GroupsOfId(inG, Get(in[i].id))
    /\ \A i \in 1..Len(in) :
          (~MatchesKeyword(in[i]) /\ GroupsOfId(inG, Get(in[i].id)) = 0
           /\ \A j \in 1..Len(in) : MatchesKeyword(in[j]) => in[j].id # in[i].id)
          => (outG = <<>> \/ GroupsOfId(outG, Get(in[i].id)) = 0)

\* C13, as the spec states it: a node whose lower-cased name or id holds a
\* keyword is removed from the nodes and its id is a group id of the result,
\* the group added only when the input had none of that id; every other
\* node is left in the nodes (its name cut to 20 characters).
C13_ContainersBecomeGroups ==
    [][(pc = "start" /\ pc' = "normalized") =>
        /\ MatchingNodesBecomeGroups(InputNodes, g'.nodes.v, InputGroups, g'.groups.v)
        /\ \A i \in 1..Len(InputNodes) :
              ~MatchesKeyword(InputNodes[i]) => CutName(InputNodes[i]) \in Range(g'.nodes.v)]_vars

\* C13, as the code has it: the same, and every other node is left in the
\* nodes when at most MAX_NODES nodes are left; of more, MAX_NODES are left.
C13_ContainersBecomeGroupsWithinLimit ==
    [][(pc = "start" /\ pc' = "normalized") =>
        LET others == {i \in 1..Len(InputNodes) : ~MatchesKeyword(InputNodes[i])}
        IN  /\ MatchingNodesBecomeGroups(InputNodes, g'.nodes.v, InputGroups, g'.groups.v)
            /\ Range(g'.nodes.v) \subseteq {CutName(InputNodes[i]) : i \in others}
            /\ IF Cardinality(others) <= MAX_NODES
               THEN \A i \in others : CutName(InputNodes[i]) \in Range(g'.nodes.v)
               ELSE Len(g'.nodes.v) = MAX_NODES]_vars

\* C13: a plan returned without a node of the input that is named after a
\* keyword in capital letters, with a new group of its id, and with the
\* other node of the input.
C13_Witness ==
    /\ pc = "normalized"
    /\ Len(g.nodes.v) = 1 /\ ~MatchesKeyword(g.nodes.v[1])
    /\ Len(g.groups.v) = 1
    /\ g.groups.v[1].name.t = "str"
    /\ MatchesKeyword(g.groups.v[1])
    /\ \A kw \in Range(CONTAINER_KEYWORDS) : ~Contains(g.groups.v[1].name.v, kw)
    /\ g.groups.v[1].id \notin {g.nodes.v[1].id}

\* The name out is the name in as the result shows it: of more than 20
\* characters, its first 17 and '...'; of fewer, itself.
NameShown(in, out) == in.t = "str" => out = Str(Cut(in.v, 20, 17))

\* The label out is the label in as the result shows it: of more than 15
\* characters, its first 12 and '...'; of fewer, itself.
LabelShown(in, out) == in.t = "str" => out = Str(Cut(in.v, 15, 12))

\* C14: in the plan normalize_plan returns, every name of a node has at most
\* 20 characters and every label of an edge at most 15; the node is a node
\* of the input whose name of more than 20 characters became its first 17
\* and '...', the edge an edge of the input whose label of more than 15
\* characters became its first 12 and '...', and shorter names and labels
\* are the ones of the input.
C14_NamesAndLabelsCut ==
    [][(pc = "start" /\ pc' = "normalized") =>
        /\ \A k \in 1..Len(g'.nodes.v) :
              /\ g'.nodes.v[k].name.t = "str" => Len(g'.nodes.v[k].name.v) <= 20
              /\ \E i \in 1..Len(InputNodes) :
                    /\ [g'.nodes.v[k] EXCEPT !.name = Null] = [InputNodes[i] EXCEPT !.name = Null]
                    /\ NameShown(InputNodes[i].name, g'.nodes.v[k].name)
        /\ \A k \in 1..Len(g'.edges.v) :
              /\ g'.edges.v[k].label.t = "str" => Len(g'.edges.v[k].label.v) <= 15
              /\ \E i \in 1..Len(InputEdges) :
                    /\ [g'.edges.v[k] EXCEPT !.label = Null] = [InputEdges[i] EXCEPT !.label = Null]
                    /\ LabelShown(InputEdges[i].label, g'.edges.v[k].label)]_vars

\* C14: a plan returned with a name of 20 characters and a label of 15 as
\* they were, and with a name and a label that end in '...', 20 and 15
\* characters long.
C14_Witness ==
    /\ pc = "normalized"
    /\ \E k \in 1..Len(g.nodes.v) :
          g.nodes.v[k].name.t = "str" /\ Len(g.nodes.v[k].name.v) = 20
          /\ Suffix(g.nodes.v[k].name.v, 17) # "..."
    /\ \E k \in 1..Len(g.nodes.v) :
          g.nodes.v[k].name.t = "str" /\ Len(g.nodes.v[k].name.v) = 20
          /\ Suffix(g.nodes.v[k].name.v, 17) = "..."
    /\ \E k \in 1..Len(g.edges.v) :
          g.edges.v[k].label.t = "str" /\ Len(g.edges.v[k].label.v) = 15
          /\ Suffix(g.edges.v[k].label.v, 12) # "..."
    /\ \E k \in 1..Len(g.edges.v) :
          g.edges.v[k].label.t = "str" /\ Len(g.edges.v[k].label.v) = 15
          /\ Suffix(g.edges.v[k].label.v, 12) = "..."

\* The document is structurally invalid: its text fails XML parsing in
\* drawio_xml_to_svg, or its root is neither mxGraphModel nor mxfile.
StructurallyInvalid(doc) ==
    ~RenderParseOK(doc) \/ doc.root \notin {"mxGraphModel", "mxfile"}

\* C15: drawio_xml_to_svg passes no exception to its caller, and for a
\* structurally invalid document it returns the image of one text, an error
\* message.
C15_RenderNeverRaises ==
    /\ pc # "render_raised"
    /\ (pc = "rendered" /\ StructurallyInvalid(xml)) =>
          /\ Len(svg) = 1
          /\ svg[1].tag = "text"
          /\ svg[1].text \in {"XML Parse Error", "No diagram elements"}

\* C16: validate_xml passes no exception to its caller, also for a document
\* whose vertex geometry holds a text that is no number; the report it
\* returns is ok exactly when it holds no issue, and for a text that fails
\* XML parsing it is not ok and holds one issue.
C16_ValidateNeverRaises ==
    /\ pc # "validate_raised"
    /\ pc = "validated" =>
          /\ report.ok <=> report.issues = <<>>
          /\ ~ParseOK(xml) => (~report.ok /\ Len(report.issues) = 1)

\* C17: for a document plan_to_mxgraph wrote, where the style of every node
\* is the one _node_style made (a fill of LANE_COLORS, the font colour of
\* the synthesizer's _is_dark), the report of validate_xml holds no
\* 'Low contrast text' issue for a node shape.
C17_NoLowContrastOnNodeStyles ==
    (pc = "validated" /\ g # Null) =>
        \A k \in 1..Len(report.issues) :
            ~StartsWith(report.issues[k], "Low contrast text on n_")

\* A '#' followed by 6 hexadecimal digits.
SixHexDigits(c) ==
    /\ Len(c) = 7 /\ CharAt(c, 1) = "#"
    /\ \A i \in 2..7 : Contains("0123456789abcdefABCDEF", CharAt(c, i))

\* The fill of the one cell of the document.
OnlyFill == StyleGet(xml.cells[1].style, "fillColor", "")

\* The document is one node with a value, a fill of '#' and 6 hexadecimal
\* digits and no fontColor, and the image of it is drawn.
ColourRendered ==
    /\ pc = "rendered"
    /\ Len(xml.cells) = 1
    /\ xml.cells[1].style = <<<<"fillColor", OnlyFill>>>>
    /\ SixHexDigits(OnlyFill)

\* C18: the synthesizer's _is_dark and the renderer's _is_dark give the same
\* result for every fill of '#' and 6 hexadecimal digits, and the text the
\* renderer writes on a node of that fill has the colour the synthesizer
\* chooses for it: light on a dark fill, dark on a light one.  #2C3E50 is
\* dark and #F0F7FF is light for both.
C18_SameDarknessInBothModules ==
    /\ ColourRendered =>
          /\ render_is_dark(OnlyFill) = is_dark(OnlyFill)
          /\ \E k \in 1..Len(svg) : svg[k].tag = "text"
          /\ \A k \in 1..Len(svg) :
                svg[k].tag = "text" =>
                    svg[k].colour = IF is_dark(OnlyFill) THEN "#ffffff" ELSE "#1a1a1a"
    /\ is_dark("#2C3E50") /\ render_is_dark("#2C3E50")
    /\ ~is_dark("#F0F7FF") /\ ~render_is_dark("#F0F7FF")

\* C18: the node of fill #2C3E50 is drawn with a white text.
C18_Witness ==
    /\ ColourRendered
    /\ OnlyFill = "#2C3E50"
    /\ \E k \in 1..Len(svg) : svg[k].tag = "text" /\ svg[k].colour = "#ffffff"

\* A node-like shape or a text-label shape of the document has a value
\* that contains the needle.
SomeShapeCarries(doc, needle) ==
    \E i \in 1..Len(doc.cells) :
        /\ IsVertex(doc.cells[i])
        /\ Contains(Lower(OrElse(CellValue(doc.cells[i]), Str("")).v), needle)

\* For a trigger word of the goal, the issue is reported exactly when no
\* shape carries the needle.
IssueIffNoShapeCarries(trigger, needle, issue) ==
    Contains(Lower(user_goal), trigger) =>
        ((\E k \in 1..Len(report.issues) : report.issues[k] = issue)
            <=> ~SomeShapeCarries(xml, needle))

\* C19: for each trigger word (event, api, monitor, security) of the
\* lower-cased goal, validate_xml reports the 'Missing ...' issue if and only
\* if no node-like shape and no text-label shape of the document has a value
\* containing event, api, monitor, secur; a document in which only a text
\* label carries the word has no such issue.
C19_GoalWordsLookAtNodesAndLabels ==
    (pc = "validated" /\ ParseOK(xml)) =>
        /\ IssueIffNoShapeCarries("event", "event", "Missing Events label or node")
        /\ IssueIffNoShapeCarries("api", "api", "Missing API label or node")
        /\ IssueIffNoShapeCarries("monitor", "monitor", "Missing Monitoring node/label")
        /\ IssueIffNoShapeCarries("security", "secur", "Missing Security boundary/label")

\* The role of a shape by its own style: 3 for a text-only label, 1 for a
\* dashed group, 0 for a background of lowered opacity, 2 for an ordinary
\* node.
RoleRank(st) ==
    IF parse_style(st, "text").t = "str" \/ parse_style(st, "strokeColor") = Str("none") THEN 3
    ELSE IF Truthy(parse_style(st, "dashed")) THEN 1
    ELSE IF Truthy(parse_style(st, "opacity")) \/ Truthy(parse_style(st, "fillOpacity")) THEN 0
    ELSE 2

\* The cell i of the document is a vertex and the only cell of its id.
OneVertexOfItsId(i) ==
    /\ IsVertex(xml.cells[i])
    /\ \A j \in 1..Len(xml.cells) : j # i => xml.cells[j].id # xml.cells[i].id

\* C20: drawio_xml_to_svg draws the vertices in the order background, group,
\* node, label: every element of a background comes before every element of
\* a group, that before every element of an ordinary node, and every
\* text-only label comes after every node, whatever the order of the cells
\* in the document.
C20_DrawnBackgroundGroupNodeLabel ==
    (pc = "rendered" /\ xml.root = "mxGraphModel") =>
        \A i, j \in 1..Len(xml.cells) :
            (/\ OneVertexOfItsId(i) /\ OneVertexOfItsId(j)
             /\ RoleRank(xml.cells[i].style) < RoleRank(xml.cells[j].style)) =>
                \A a, b \in 1..Len(svg) :
                    (svg[a].cell = xml.cells[i].id /\ svg[b].cell = xml.cells[j].id) => a < b

\* The lane list plan_to_mxgraph works with: the plan's lanes, the 5 default
\* lanes when the plan has none or an empty list.
LanesOf(p) == IF Truthy(p.lanes) THEN p.lanes.v ELSE DEFAULT_LANES

\* The places of the lane background rectangles in the document, in the
\* order they are emitted: the cells of opacity 50.
LaneRects ==
    SelectIdx([i \in 1..Len(xml.cells) |->
                  parse_style(xml.cells[i].style, "opacity") = Str("50")], 1)

\* The document is that of a plan whose lanes are absent or a list of names.
LanesDrawn ==
    /\ Synthesized
    /\ g.lanes.t \in {"missing", "list"}

\* C21: for every lane list (the plan's, or the 5 default lanes when it is
\* missing or empty) the lane background rectangles are emitted in list
\* order, each LANE_HEIGHT + LANE_PADDING below the one before it, so that no
\* two overlap, each of height LANE_HEIGHT and as wide as the diagram less
\* the two margins; also when the list names a lane twice.
C21_LaneRectsStackInListOrder ==
    LanesDrawn =>
        LET lanes == LanesOf(g)
            rects == [k \in 1..Len(LaneRects) |-> xml.cells[LaneRects[k]]]
        IN  /\ Len(rects) = Len(lanes)
            /\ \A k \in 1..Len(rects) :
                  /\ parse_style(rects[k].style, "fillColor")
                        = Str(get_lane_colors(lanes[k]).bg)
                  /\ rects[k].geom.height = LANE_HEIGHT
                  /\ rects[k].geom.width = xml.dx - 2 * DIAGRAM_MARGIN
                  /\ rects[k].geom.x = DIAGRAM_MARGIN
            /\ \A k \in 1..(Len(rects) - 1) :
                  rects[k + 1].geom.y = rects[k].geom.y + LANE_HEIGHT + LANE_PADDING
            /\ \A k, m \in 1..Len(rects) :
                  k # m => ~overlap(bbox(rects[k].geom), bbox(rects[m].geom))

\* The texts of a list of values that are non-empty strs.
NamesIn(vals) == {vals[i].v : i \in {j \in 1..Len(vals) : vals[j].t = "str" /\ vals[j].v # ""}}

\* The ids and names of the elements of the plan the document is drawn for:
\* its title, its lanes, its groups, its nodes, the ends of its edges, and
\* the legend.
ElementNames ==
    LET nodes == g.nodes.v
        groups == g.groups.v
        edges == g.edges.v
    IN  NamesIn(<<GetD(g.title, Str("Architecture Diagram"))>>)
        \cup NamesIn(LanesOf(g))
        \cup NamesIn([k \in 1..Len(groups) |-> Get(groups[k].id)])
        \cup NamesIn([k \in 1..Len(groups) |-> Get(groups[k].name)])
        \cup NamesIn([k \in 1..Len(nodes) |-> Get(nodes[k].id)])
        \cup NamesIn([k \in 1..Len(nodes) |-> Get(nodes[k].name)])
        \cup NamesIn([k \in 1..Len(edges) |-> Get(edges[k].from)])
        \cup NamesIn([k \in 1..Len(edges) |-> Get(edges[k].to)])
        \cup {"legend"}

\* The id is nothing but a number, as a value of the counter cell_id is.
IsCounterValue(id) == id # "" /\ AllIn(id, Digits)

\* The cell at place i is a shape: a vertex or an edge.
IsShape(i) == xml.cells[i].vertex = "1" \/ xml.cells[i].edge = "1"

\* C22: every shape plan_to_mxgraph emits (title, lane backgrounds, lane
\* labels, groups, nodes, edges, edge labels, legend) has an identifier
\* derived from the id or name of the plan element it stands for, and none
\* has an identifier that is only the value of the internal cell counter.
C22_ShapeIdsDerivedFromPlan ==
    (Synthesized /\ g.lanes.t \in {"missing", "list"}) =>
        \A i \in 1..Len(xml.cells) :
            IsShape(i) =>
                /\ ~IsCounterValue(xml.cells[i].id)
                /\ \E name \in ElementNames : Contains(xml.cells[i].id, name)

\* C23: every edge cell plan_to_mxgraph emits declares an endArrow that
\* validate_xml takes for an arrowhead, so the report of a synthesized
\* document has no 'missing endArrow' issue.
C23_EdgesDeclareKnownArrow ==
    /\ Synthesized =>
          \A i \in 1..Len(xml.cells) :
              xml.cells[i].edge = "1" =>
                  /\ parse_style(xml.cells[i].style, "endArrow").t = "str"
                  /\ parse_style(xml.cells[i].style, "endArrow").v \in RECOGNIZED_ARROWS
    /\ pc = "validated" =>
          \A k \in 1..Len(report.issues) : ~Contains(report.issues[k], "missing endArrow")

\* validate_xml(plan_to_mxgraph(normalize_plan(goal, plan)), goal) returns
\* ok = true.
ValidatesOk(goal, p) ==
    LET r == normalize_plan(goal, p)
    IN  /\ ~r.raised
        /\ LET x == plan_to_mxgraph(r.g)
           IN  /\ ~x.raised
               /\ ~validate_raises(x.xml)
               /\ validate_xml(x.xml, goal).ok

\* C27: the early-success exit of the generation loop can be reached: there
\* are a plan returned by normalize_plan and a goal for which the report of
\* validate_xml on the document of plan_to_mxgraph is ok.
C27_SomePlanValidates ==
    pc = "start" => \E in \in Inputs : ValidatesOk(in.goal, in.plan)

\* C28: normalize_plan leaves the plan object passed to it as it was: after
\* the call the caller's nodes list has the same elements in the same order,
\* and every node name and edge label of the caller's plan has its original
\* value.
C28_CallersPlanUnchanged ==
    [][(pc = "start" /\ pc' = "normalized") =>
          /\ plan'.nodes = plan.nodes
          /\ plan'.edges = plan.edges]_vars

\* C30: all cells of a document of plan_to_mxgraph have pairwise distinct
\* ids, for every plan returned by normalize_plan: two (from, to) pairs
\* never give one edge id e_<from>_<to> or one label id l_<from>_<to>, and
\* the legend ids leg_<lane> and legl_<lane> differ for every lane list.
C30_CellIdsDistinct ==
    (Synthesized /\ g.lanes.t \in {"missing", "list"}) =>
        \A i, j \in 1..Len(xml.cells) : i # j => xml.cells[i].id # xml.cells[j].id

\* The entries of trace of the iterations whose plan parsed and normalized.
ProducedPlans == SelectSeq(trace, LAMBDA e : ~e.error)

\* An iteration passed: format check, semantic self-check and local
\* validation were all ok.
Passed(e) == ~e.error /\ e.format_ok /\ e.ok_sem /\ e.local_ok

\* C25: agentic_generate returns after at most max_iters iterations with one
\* trace entry per iteration and no iteration after a passing one; the xml
\* it returns is empty exactly when no iteration produced a plan that parsed
\* and normalized, and is otherwise the document of the last plan that did.
C25_ReturnsDocumentOfLastProducedPlan ==
    pc = "generate_done" =>
        /\ iter <= max_iters
        /\ Len(trace) = iter
        /\ \A k \in 1..Len(trace) : trace[k].iteration = k
        /\ \A k \in 1..(Len(trace) - 1) : ~Passed(trace[k])
        /\ (result = Str("")) <=> (ProducedPlans = <<>>)
        /\ ProducedPlans # <<>> =>
               result = plan_to_mxgraph(ProducedPlans[Len(ProducedPlans)].plan).xml

\* The places of the events of a type in the stream.
EventsOfType(type) == {k \in 1..Len(events) : events[k].type = type}

\* The last place of a non-empty set of places.
LastOf(places) == CHOOSE k \in places : \A j \in places : j <= k

\* Some validation of the stream passed.
StreamPassed == \E k \in EventsOfType("verify") : events[k].data = Bool(TRUE)

HybridEnded == pc \in {"hybrid_done", "stream_done", "stream_raised"}

\* The MCP flow built its diagrams: it went through the build of every plan
\* and yielded 'complete'.
McpBuilt == EventsOfType("complete") # {}

\* The stream holds events of agentic_generate_stream.
LocalGenerated == EventsOfType("iteration") # {}

\* The stream holds the connection_check of a server that is not healthy.
UnhealthyCheck == \E k \in EventsOfType("connection_check") : events[k].data = Bool(FALSE)

\* C24: however the server goes up and down between the health checks, a
\* run of hybrid_generate_stream with use_mcp in which the MCP flow does not
\* build diagrams yields the events of agentic_generate_stream, and no run
\* ends after an unhealthy connection_check with neither MCP diagrams nor
\* local generation.
C24_FallsBackWhenServerUnavailable ==
    HybridEnded =>
        /\ ~McpBuilt => LocalGenerated
        /\ UnhealthyCheck => (McpBuilt \/ LocalGenerated)

\* The cell is one build_from_plan created for a node of the k-th plan.
NodeCellOf(cell, k) ==
    /\ cell \in 1..Len(canvas)
    /\ canvas[cell].kind = "node"
    /\ canvas[cell].plan = k

\* C29: every add_edge call made while the builder builds the k-th plan
\* connects two cells created for nodes of the k-th plan, also when plans
\* reuse node ids and when the creation of a node failed.
C29_EdgesConnectCellsOfTheirPlan ==
    \A c \in 1..Len(edge_calls) :
        /\ NodeCellOf(edge_calls[c].source, edge_calls[c].plan)
        /\ NodeCellOf(edge_calls[c].target, edge_calls[c].plan)

====
